---- MODULE Spec2Model ----
(***************************************************************************)
(* Knowledge base of the Polar policy engine (polar-core/src/kb.rs).       *)
(*                                                                         *)
(* The state is the KnowledgeBase struct; every public operation of the   *)
(* struct is one action.  Two history variables record what the caller    *)
(* observes: `ret` (operation and result of the last call) and `issued`   *)
(* (every id drawn from the id counter, with what happened to it).        *)
(***************************************************************************)
EXTENDS Integers, Sequences, FiniteSets, TLC

VARIABLES
    constants,        \* Bindings: Symbol -> Term
    mro,              \* Symbol -> sequence of instance ids
    loaded_files,     \* filename -> source id
    loaded_content,   \* src -> filename
    rules,            \* Symbol -> GenericRule (sequence of Rule, by rule id)
    rule_types,       \* RuleTypes: [types: Symbol -> Seq(Rule), required: set of Rule]
    sources,          \* Sources: source id -> Source
    gensym_counter,   \* Counter
    id_counter,       \* Counter
    inline_queries,   \* sequence of Term
    resource_blocks,  \* ResourceBlocks
    ret,              \* the last call and what it returned
    issued            \* ids drawn from id_counter so far: sequence of [id, by]

vars == <<constants, mro, loaded_files, loaded_content, rules, rule_types,
          sources, gensym_counter, id_counter, inline_queries,
          resource_blocks, ret, issued>>

----------------------------------------------------------------------------
(* Bounds of the model.                                                    *)

\* ids drawn from the id counter in one behaviour
MaxIds == 3
\* symbols drawn from the gensym counter in one behaviour
MaxGensyms == 1
\* rules held by the rule store, over all names
MaxRules == 2
\* rule types held by the rule-type store, over all names
MaxRuleTypes == 2
\* inline queries held at once
MaxInlineQueries == 1

----------------------------------------------------------------------------
(* Maps with a dynamic key set (HashMap): functions on their key set.      *)

EmptyMap == << >>

MapInsert(m, k, v) == [x \in (DOMAIN m) \cup {k} |-> IF x = k THEN v ELSE m[x]]

\* Option<T>: None is the empty sequence, Some(x) the one-element sequence.
None == << >>
Some(x) == <<x>>

----------------------------------------------------------------------------
(* Counter: ids wrap at 52 bits.  TLC's integers are narrower than 52      *)
(* bits, so a counter value is the pair <<hi, lo>> of its two 26-bit       *)
(* halves, standing for hi * 2^26 + lo.                                    *)

IdBits == 52

HalfRange == 2 ^ (IdBits \div 2)

CounterDefault == <<0, 0>>

CounterMax == <<HalfRange - 1, HalfRange - 1>>

\* the counter value that follows c, modulo 2^52
CounterSucc(c) ==
    IF c[2] + 1 < HalfRange THEN <<c[1], c[2] + 1>>
    ELSE IF c[1] + 1 < HalfRange THEN <<c[1] + 1, 0>>
    ELSE <<0, 0>>

\* a < b on counter values
IdLess(a, b) == a[1] < b[1] \/ (a[1] = b[1] /\ a[2] < b[2])

FitsIn52Bits(id) ==
    /\ id[1] \in 0 .. (HalfRange - 1)
    /\ id[2] \in 0 .. (HalfRange - 1)

\* the counter of a knowledge base that has already dispensed all but the
\* last two of its 2^52 ids
CounterNearWrap == <<HalfRange - 1, HalfRange - 2>>

----------------------------------------------------------------------------
(* Results of calls.                                                       *)

Ok(op, value) == [op |-> op, ok |-> TRUE, value |-> value, kind |-> "Ok", msg |-> << >>]

Err(op, kind, msg) == [op |-> op, ok |-> FALSE, value |-> None, kind |-> kind, msg |-> msg]

NoCall == [op |-> "new", ok |-> TRUE, value |-> None, kind |-> "Ok", msg |-> << >>]

----------------------------------------------------------------------------
(* Source registry.                                                        *)

Source(src, filename) == [src |-> src, filename |-> filename]

SourcesDefault == EmptyMap

\* Sources::add_source
SourcesAddSource(srcs, source, id) == MapInsert(srcs, id, source)

FileOk == [ok |-> TRUE, msg |-> << >>]

FileLoading(msg) == [ok |-> FALSE, msg |-> msg]

\* check_file without the guard of its first arm (`if other_file == filename`)
check_file_unguarded(lc, lf, src, filename) ==
    IF src \in DOMAIN lc /\ filename \in DOMAIN lf
    THEN FileLoading(<<"File ", filename, " has already been loaded.">>)
    ELSE IF filename \in DOMAIN lf
    THEN FileLoading(<<"A file with the name ", filename,
                       ", but different contents has already been loaded.">>)
    ELSE IF src \in DOMAIN lc
    THEN FileLoading(<<"A file with the same contents as ", filename,
                       " named ", lc[src], " has already been loaded.">>)
    ELSE FileOk

\* check_file without its third arm: loaded contents under a new name pass
check_file_by_name_only(lc, lf, src, filename) ==
    IF src \in DOMAIN lc /\ filename \in DOMAIN lf /\ lc[src] = filename
    THEN FileLoading(<<"File ", filename, " has already been loaded.">>)
    ELSE IF filename \in DOMAIN lf
    THEN FileLoading(<<"A file with the name ", filename,
                       ", but different contents has already been loaded.">>)
    ELSE FileOk

\* KnowledgeBase::check_file on the maps lc (loaded_content), lf (loaded_files)
check_file(lc, lf, src, filename) ==
    IF src \in DOMAIN lc /\ filename \in DOMAIN lf /\ lc[src] = filename
    THEN FileLoading(<<"File ", filename, " has already been loaded.">>)
    ELSE IF filename \in DOMAIN lf
    THEN FileLoading(<<"A file with the name ", filename,
                       ", but different contents has already been loaded.">>)
    ELSE IF src \in DOMAIN lc
    THEN FileLoading(<<"A file with the same contents as ", filename,
                       " named ", lc[src], " has already been loaded.">>)
    ELSE FileOk

\* KnowledgeBase::new_id, as a step on the counter: the id it returns
NewIdValue(c) == c

\* new_id reading the counter without advancing it
new_id_without_advance ==
    /\ Len(issued) < MaxIds
    /\ ret' = Ok("new_id", Some(NewIdValue(id_counter)))
    /\ issued' = Append(issued, [id |-> NewIdValue(id_counter), by |-> "new_id"])
    /\ UNCHANGED <<constants, mro, loaded_files, loaded_content, rules,
                   rule_types, sources, gensym_counter, id_counter,
                   inline_queries, resource_blocks>>

\* KnowledgeBase::new_id
new_id ==
    /\ Len(issued) < MaxIds
    /\ id_counter' = CounterSucc(id_counter)
    /\ ret' = Ok("new_id", Some(NewIdValue(id_counter)))
    /\ issued' = Append(issued, [id |-> NewIdValue(id_counter), by |-> "new_id"])
    /\ UNCHANGED <<constants, mro, loaded_files, loaded_content, rules,
                   rule_types, sources, gensym_counter, inline_queries,
                   resource_blocks>>

\* add_source drawing its id only after the file check has passed
add_source_checking_first(source) ==
    /\ Len(issued) < MaxIds
    /\ LET src_id == NewIdValue(id_counter)
           checked == IF source.filename # None
                      THEN check_file(loaded_content, loaded_files,
                                      source.src, source.filename[1])
                      ELSE FileOk
       IN  IF ~checked.ok
           THEN /\ ret' = Err("add_source", "FileLoading", checked.msg)
                /\ UNCHANGED <<id_counter, issued, loaded_content, loaded_files, sources>>
           ELSE /\ id_counter' = CounterSucc(id_counter)
                /\ IF source.filename # None
                   THEN /\ loaded_content' =
                              MapInsert(loaded_content, source.src, source.filename[1])
                        /\ loaded_files' =
                              MapInsert(loaded_files, source.filename[1], src_id)
                   ELSE UNCHANGED <<loaded_content, loaded_files>>
                /\ sources' = SourcesAddSource(sources, source, src_id)
                /\ ret' = Ok("add_source", Some(src_id))
                /\ issued' = Append(issued, [id |-> src_id, by |-> "add_source"])
    /\ UNCHANGED <<constants, mro, rules, rule_types, gensym_counter,
                   inline_queries, resource_blocks>>

\* KnowledgeBase::add_source
add_source(source) ==
    /\ Len(issued) < MaxIds
    /\ LET src_id == NewIdValue(id_counter)
           checked == IF source.filename # None
                      THEN check_file(loaded_content, loaded_files,
                                      source.src, source.filename[1])
                      ELSE FileOk
       IN  /\ id_counter' = CounterSucc(id_counter)
           /\ IF ~checked.ok
              THEN /\ ret' = Err("add_source", "FileLoading", checked.msg)
                   /\ issued' = Append(issued, [id |-> src_id, by |-> "rejected"])
                   /\ UNCHANGED <<loaded_content, loaded_files, sources>>
              ELSE /\ IF source.filename # None
                      THEN /\ loaded_content' =
                                 MapInsert(loaded_content, source.src, source.filename[1])
                           /\ loaded_files' =
                                 MapInsert(loaded_files, source.filename[1], src_id)
                      ELSE UNCHANGED <<loaded_content, loaded_files>>
                   /\ sources' = SourcesAddSource(sources, source, src_id)
                   /\ ret' = Ok("add_source", Some(src_id))
                   /\ issued' = Append(issued, [id |-> src_id, by |-> "add_source"])
    /\ UNCHANGED <<constants, mro, rules, rule_types, gensym_counter,
                   inline_queries, resource_blocks>>

----------------------------------------------------------------------------
(* Terms.  A Value is a record tagged by `kind`, with its payload under a  *)
(* field of its own type (v: a name or string, n: a number, b: a boolean,  *)
(* elems: the elements of a list, fields: a map); source spans are left    *)
(* out: Term equality compares values only.                                *)

Variable(name) == [kind |-> "Variable", v |-> name]
RestVariable(name) == [kind |-> "RestVariable", v |-> name]
String(s) == [kind |-> "String", v |-> s]
Integer(n) == [kind |-> "Integer", n |-> n]
Float(x) == [kind |-> "Float", n |-> x]
Boolean(b) == [kind |-> "Boolean", b |-> b]
List(elems) == [kind |-> "List", elems |-> elems]
\* Dictionary { fields }: fields is a map from keys to Values
Dictionary(fields) == [kind |-> "Dictionary", fields |-> fields]
ExternalInstance(instance_id) == [kind |-> "ExternalInstance", instance_id |-> instance_id]
\* Value::Call, with its name only
Call(name) == [kind |-> "Call", v |-> name]

\* InstanceLiteral { tag, fields }
InstanceLiteral(tag, fields) == [tag |-> tag, fields |-> fields]
\* Pattern::Instance and Pattern::Dictionary, wrapped in Value::Pattern
PatternInstance(lit) ==
    [kind |-> "Pattern", pkind |-> "Instance", tag |-> lit.tag, fields |-> lit.fields]
PatternDictionary(fields) ==
    [kind |-> "Pattern", pkind |-> "Dictionary", tag |-> "", fields |-> fields]

\* instance!(tag) and instance!(tag, fields)
instance(tag) == InstanceLiteral(tag, EmptyMap)

\* Parameter { parameter, specializer }
Parameter(parameter, specializer) == [parameter |-> parameter, specializer |-> specializer]

\* Rule { name, params, required }; the body plays no part in rule-type
\* validation and is left out
Rule(name, params, required) == [name |-> name, params |-> params, required |-> required]

ACTOR_UNION_NAME == "Actor"
RESOURCE_UNION_NAME == "Resource"

----------------------------------------------------------------------------
(* Class and MRO registry.                                                 *)

\* KnowledgeBase::is_constant
is_constant(cs, name) == name \in DOMAIN cs

\* register_constant refusing Actor only
register_constant_actor_only(name, value) ==
    /\ IF name = ACTOR_UNION_NAME
       THEN /\ ret' = Err("register_constant", "InvalidRegistration",
                          <<"'", name, "' is a built-in specializer.">>)
            /\ UNCHANGED constants
       ELSE /\ constants' = MapInsert(constants, name, value)
            /\ ret' = Ok("register_constant", None)
    /\ UNCHANGED <<mro, loaded_files, loaded_content, rules, rule_types,
                   sources, gensym_counter, id_counter, inline_queries,
                   resource_blocks, issued>>

\* register_constant dropping the MRO stored under the name it registers
register_constant_dropping_mro(name, value) ==
    /\ IF name = ACTOR_UNION_NAME \/ name = RESOURCE_UNION_NAME
       THEN /\ ret' = Err("register_constant", "InvalidRegistration",
                          <<"'", name, "' is a built-in specializer.">>)
            /\ UNCHANGED <<constants, mro>>
       ELSE /\ constants' = MapInsert(constants, name, value)
            /\ mro' = [n \in (DOMAIN mro) \ {name} |-> mro[n]]
            /\ ret' = Ok("register_constant", None)
    /\ UNCHANGED <<loaded_files, loaded_content, rules, rule_types,
                   sources, gensym_counter, id_counter, inline_queries,
                   resource_blocks, issued>>

\* KnowledgeBase::register_constant
register_constant(name, value) ==
    /\ IF name = ACTOR_UNION_NAME \/ name = RESOURCE_UNION_NAME
       THEN /\ ret' = Err("register_constant", "InvalidRegistration",
                          <<"'", name, "' is a built-in specializer.">>)
            /\ UNCHANGED constants
       ELSE /\ constants' = MapInsert(constants, name, value)
            /\ ret' = Ok("register_constant", None)
    /\ UNCHANGED <<mro, loaded_files, loaded_content, rules, rule_types,
                   sources, gensym_counter, id_counter, inline_queries,
                   resource_blocks, issued>>

\* add_mro without the check that the name is registered
add_mro_unchecked(name, list) ==
    /\ mro' = MapInsert(mro, name, list)
    /\ ret' = Ok("add_mro", None)
    /\ UNCHANGED <<constants, loaded_files, loaded_content, rules, rule_types,
                   sources, gensym_counter, id_counter, inline_queries,
                   resource_blocks, issued>>

\* KnowledgeBase::add_mro
add_mro(name, list) ==
    /\ IF ~is_constant(constants, name)
       THEN /\ ret' = Err("add_mro", "InvalidState",
                          <<"Cannot add MRO for unregistered class ", name>>)
            /\ UNCHANGED mro
       ELSE /\ mro' = MapInsert(mro, name, list)
            /\ ret' = Ok("add_mro", None)
    /\ UNCHANGED <<constants, loaded_files, loaded_content, rules, rule_types,
                   sources, gensym_counter, id_counter, inline_queries,
                   resource_blocks, issued>>

----------------------------------------------------------------------------
(* Rule store and rule-type store.                                         *)

\* RuleTypes::default
RuleTypesDefault == [types |-> EmptyMap, required |-> {}]

\* RuleTypes::add
RuleTypesAdd(rt, rule_type) ==
    [types |-> MapInsert(rt.types, rule_type.name,
                         IF rule_type.name \in DOMAIN rt.types
                         THEN Append(rt.types[rule_type.name], rule_type)
                         ELSE <<rule_type>>),
     required |-> IF rule_type.required THEN rt.required \cup {rule_type}
                  ELSE rt.required]

\* RuleTypes::required_rule_types
RuleTypesRequired(rt) == rt.required

\* RuleTypes::reset
RuleTypesReset(rt) == RuleTypesDefault

\* number of rules in the rule store
RuleCount(rs) ==
    Cardinality({p \in (DOMAIN rs) \X (1 .. MaxRules + 1) : p[2] <= Len(rs[p[1]])})

\* number of rule types in the rule-type store
RuleTypeCount(rt) ==
    Cardinality({p \in (DOMAIN rt.types) \X (1 .. MaxRuleTypes + 1) :
                   p[2] <= Len(rt.types[p[1]])})

\* the rule store after add_rule: the rule joins the generic rule of its name
RulesInsert(rs, rule) ==
    MapInsert(rs, rule.name,
              IF rule.name \in DOMAIN rs THEN Append(rs[rule.name], rule) ELSE <<rule>>)

\* KnowledgeBase::add_rule
add_rule(rule) ==
    /\ RuleCount(rules) < MaxRules
    /\ rules' = RulesInsert(rules, rule)
    /\ ret' = Ok("add_rule", None)
    /\ UNCHANGED <<constants, mro, loaded_files, loaded_content, rule_types,
                   sources, gensym_counter, id_counter, inline_queries,
                   resource_blocks, issued>>

\* KnowledgeBase::add_rule_type
add_rule_type(rule_type) ==
    /\ RuleTypeCount(rule_types) < MaxRuleTypes
    /\ rule_types' = RuleTypesAdd(rule_types, rule_type)
    /\ ret' = Ok("add_rule_type", None)
    /\ UNCHANGED <<constants, mro, loaded_files, loaded_content, rules,
                   sources, gensym_counter, id_counter, inline_queries,
                   resource_blocks, issued>>

----------------------------------------------------------------------------
(* Resource blocks: the union members, the declarations and the shorthand  *)
(* rules.                                                                  *)

\* ResourceBlocks::default
ResourceBlocksDefault ==
    [actors |-> {}, resources |-> {}, declarations |-> EmptyMap,
     shorthand_rules |-> EmptyMap]

\* ResourceBlocks::clear
ResourceBlocksClear(rb) == ResourceBlocksDefault

\* the parser declaring a resource block: `actor Name {}` or `resource Name {}`
declare_block(block_type, name) ==
    /\ block_type \in {"actor", "resource"}
    /\ resource_blocks' =
          IF block_type = "actor"
          THEN [resource_blocks EXCEPT !.actors = @ \cup {name}]
          ELSE [resource_blocks EXCEPT !.resources = @ \cup {name}]
    /\ ret' = Ok("declare_block", None)
    /\ UNCHANGED <<constants, mro, loaded_files, loaded_content, rules,
                   rule_types, sources, gensym_counter, id_counter,
                   inline_queries, issued>>

\* the loader pushing an inline query (`?= ...`) onto kb.inline_queries
add_inline_query(term) ==
    /\ Len(inline_queries) < MaxInlineQueries
    /\ inline_queries' = Append(inline_queries, term)
    /\ ret' = Ok("add_inline_query", None)
    /\ UNCHANGED <<constants, mro, loaded_files, loaded_content, rules,
                   rule_types, sources, gensym_counter, id_counter,
                   resource_blocks, issued>>

\* KnowledgeBase::is_union
is_union(tag) == tag = ACTOR_UNION_NAME \/ tag = RESOURCE_UNION_NAME

\* KnowledgeBase::get_union_members
get_union_members(rb, tag) ==
    IF tag = ACTOR_UNION_NAME THEN rb.actors ELSE rb.resources

----------------------------------------------------------------------------
(* gensym.                                                                 *)

\* KnowledgeBase::temp_prefix
temp_prefix(name) == IF name = "_" THEN <<name>> ELSE <<"_", name, "_">>

\* KnowledgeBase::gensym
gensym(prefix) ==
    /\ gensym_counter[2] < MaxGensyms
    /\ gensym_counter' = CounterSucc(gensym_counter)
    /\ ret' = Ok("gensym", Some(<<temp_prefix(prefix), gensym_counter>>))
    /\ UNCHANGED <<constants, mro, loaded_files, loaded_content, rules,
                   rule_types, sources, id_counter, inline_queries,
                   resource_blocks, issued>>

\* clear_rules that forgets the two file maps
clear_rules_keeping_files ==
    /\ rules' = EmptyMap
    /\ rule_types' = RuleTypesReset(rule_types)
    /\ sources' = SourcesDefault
    /\ inline_queries' = << >>
    /\ resource_blocks' = ResourceBlocksClear(resource_blocks)
    /\ ret' = Ok("clear_rules", None)
    /\ UNCHANGED <<constants, mro, gensym_counter, id_counter, issued,
                   loaded_content, loaded_files>>

\* clear_rules that also resets the id counter
clear_rules_resetting_ids ==
    /\ rules' = EmptyMap
    /\ rule_types' = RuleTypesReset(rule_types)
    /\ sources' = SourcesDefault
    /\ inline_queries' = << >>
    /\ loaded_content' = EmptyMap
    /\ loaded_files' = EmptyMap
    /\ resource_blocks' = ResourceBlocksClear(resource_blocks)
    /\ id_counter' = CounterDefault
    /\ ret' = Ok("clear_rules", None)
    /\ UNCHANGED <<constants, mro, gensym_counter, issued>>

\* KnowledgeBase::clear_rules
clear_rules ==
    /\ rules' = EmptyMap
    /\ rule_types' = RuleTypesReset(rule_types)
    /\ sources' = SourcesDefault
    /\ inline_queries' = << >>
    /\ loaded_content' = EmptyMap
    /\ loaded_files' = EmptyMap
    /\ resource_blocks' = ResourceBlocksClear(resource_blocks)
    /\ ret' = Ok("clear_rules", None)
    /\ UNCHANGED <<constants, mro, gensym_counter, id_counter, issued>>

----------------------------------------------------------------------------
(* Shape validator: matching one rule against one rule type.               *)
(*                                                                         *)
(* A match attempt yields RuleParamMatch::True, RuleParamMatch::False(msg) *)
(* or a ValidationError.  The union members are a HashSet, whose           *)
(* iteration order is unspecified, so every check yields the SET of        *)
(* results some iteration order produces.  A message is the sequence of    *)
(* its literal pieces and its tag, name and index arguments; the rendering *)
(* of whole terms (to_polar, {:#?}) is left out of it.                     *)

NoRule == Rule("", << >>, FALSE)

MatchTrue == [res |-> "True", kind |-> "", msg |-> << >>, rule |-> NoRule]

MatchFalse(msg) == [res |-> "False", kind |-> "", msg |-> msg, rule |-> NoRule]

\* Err(ValidationError::kind { .. })
MatchErr(kind, msg, rule) == [res |-> "Err", kind |-> kind, msg |-> msg, rule |-> rule]

\* PartialEq on Value
ValueEq(a, b) == a.kind = b.kind /\ a = b

\* has_rest_var, on the elements of a list
has_rest_var(list) == \E i \in 1 .. Len(list) : list[i].kind = "RestVariable"

\* Vec::contains
ListContains(list, t) == \E i \in 1 .. Len(list) : ValueEq(list[i], t)

\* param_fields_match demanding the same keys on both sides
param_fields_match_same_keys(type_fields, rule_fields) ==
    /\ DOMAIN type_fields = DOMAIN rule_fields
    /\ \A k \in DOMAIN type_fields : ValueEq(rule_fields[k], type_fields[k])

\* KnowledgeBase::param_fields_match
param_fields_match(type_fields, rule_fields) ==
    \A k \in DOMAIN type_fields :
        IF k \in DOMAIN rule_fields
        THEN ValueEq(rule_fields[k], type_fields[k])
        ELSE FALSE

FieldsMismatch(rule_instance, index, rule_type_instance) ==
    MatchFalse(<<"Rule specializer ", rule_instance.tag, " on parameter ",
                 ToString(index), " did not match rule type specializer ",
                 rule_type_instance.tag,
                 " because the specializer fields did not match.">>)

\* KnowledgeBase::get_registered_class: Some(term) or None (UnregisteredClass)
get_registered_class(cs, class) == IF class \in DOMAIN cs THEN Some(cs[class]) ELSE None

\* the subclass check accepting every rule specializer that has an MRO,
\* whatever the MRO holds
check_rule_instance_has_mro(kb, rule_instance, rule_type_instance, index) ==
    LET class == get_registered_class(kb.constants, rule_type_instance.tag) IN
    IF class = None
    THEN MatchErr("UnregisteredClass", <<rule_type_instance.tag>>, NoRule)
    ELSE IF rule_instance.tag \in DOMAIN kb.mro
    THEN IF ~param_fields_match(rule_type_instance.fields, rule_instance.fields)
         THEN FieldsMismatch(rule_instance, index, rule_type_instance)
         ELSE MatchTrue
    ELSE MatchFalse(<<"Rule specializer ", rule_instance.tag,
                      " on parameter ", ToString(index),
                      " is not registered as a class.">>)

\* the subclass check looking for the MRO of the rule specializer before it
\* looks up the class of the rule type specializer
check_rule_instance_mro_first(kb, rule_instance, rule_type_instance, index) ==
    LET class == get_registered_class(kb.constants, rule_type_instance.tag) IN
    IF rule_instance.tag \notin DOMAIN kb.mro
    THEN MatchFalse(<<"Rule specializer ", rule_instance.tag,
                      " on parameter ", ToString(index),
                      " is not registered as a class.">>)
    ELSE IF class = None
    THEN MatchErr("UnregisteredClass", <<rule_type_instance.tag>>, NoRule)
    ELSE IF class[1].kind # "ExternalInstance"
    THEN MatchFalse(<<"Rule type specializer ", rule_type_instance.tag,
                      " on parameter ", ToString(index),
                      " should be a registered class, but instead it's registered as a constant with value: ">>)
    ELSE IF ~(\E i \in 1 .. Len(kb.mro[rule_instance.tag]) :
                kb.mro[rule_instance.tag][i] = class[1].instance_id)
    THEN MatchFalse(<<"Rule specializer ", rule_instance.tag,
                      " on parameter ", ToString(index),
                      " must match rule type specializer ",
                      rule_type_instance.tag>>)
    ELSE IF ~param_fields_match(rule_type_instance.fields, rule_instance.fields)
    THEN FieldsMismatch(rule_instance, index, rule_type_instance)
    ELSE MatchTrue

\* KnowledgeBase::check_rule_instance_is_subclass_of_rule_type_instance
check_rule_instance_is_subclass_of_rule_type_instance(kb, rule_instance, rule_type_instance, index) ==
    LET class == get_registered_class(kb.constants, rule_type_instance.tag) IN
    IF class = None
    THEN MatchErr("UnregisteredClass", <<rule_type_instance.tag>>, NoRule)
    ELSE LET term == class[1] IN
         IF term.kind = "ExternalInstance"
         THEN IF rule_instance.tag \in DOMAIN kb.mro
              THEN LET rule_mro == kb.mro[rule_instance.tag] IN
                   IF ~(\E i \in 1 .. Len(rule_mro) : rule_mro[i] = term.instance_id)
                   THEN MatchFalse(<<"Rule specializer ", rule_instance.tag,
                                     " on parameter ", ToString(index),
                                     " must match rule type specializer ",
                                     rule_type_instance.tag>>)
                   ELSE IF ~param_fields_match(rule_type_instance.fields,
                                               rule_instance.fields)
                   THEN FieldsMismatch(rule_instance, index, rule_type_instance)
                   ELSE MatchTrue
              ELSE MatchFalse(<<"Rule specializer ", rule_instance.tag,
                                " on parameter ", ToString(index),
                                " is not registered as a class.">>)
         ELSE MatchFalse(<<"Rule type specializer ", rule_type_instance.tag,
                           " on parameter ", ToString(index),
                           " should be a registered class, but instead it's registered as a constant with value: ">>)

\* the loop over the members of a union with nothing to try: only a direct
\* member of the union passes
UnionMemberResultsDirectOnly(kb, rule_instance, rule_type_instance, index) == {}

\* the loop of check_pattern_param over the members of a union: the results
\* of the subclass check against each member
UnionMemberResults(kb, rule_instance, rule_type_instance, index) ==
    {check_rule_instance_is_subclass_of_rule_type_instance(
         kb, rule_instance,
         InstanceLiteral(member, rule_type_instance.fields), index) :
     member \in get_union_members(kb.resource_blocks, rule_type_instance.tag)}

NotAMember(rule_instance, index, rule_type_instance) ==
    MatchFalse(<<"Rule specializer ", rule_instance.tag, " on parameter ",
                 ToString(index), " must be a member of rule type specializer ",
                 rule_type_instance.tag>>
               \o (IF rule_type_instance.tag = ACTOR_UNION_NAME
                   THEN <<"\n\n\tPerhaps you meant to add an actor block to the top of your policy, like this:\n\n\t  actor ",
                          rule_instance.tag, " {}">>
                   ELSE IF rule_type_instance.tag = RESOURCE_UNION_NAME
                   THEN <<"\n\n\tPerhaps you meant to add a resource block to your policy, like this:\n\n\t  resource ",
                          rule_instance.tag, " { .. }">>
                   ELSE << >>))

\* check_pattern_param without the test for a union rule specializer: the
\* other union is looked up among the members like a class tag, and passes
\* when the union has no member to compare it with
check_instance_pattern_param_unions_as_classes(kb, index, rule_instance, rule_type_instance) ==
    LET fields_ok == param_fields_match(rule_type_instance.fields, rule_instance.fields)
        fields_result == IF fields_ok THEN MatchTrue
                         ELSE FieldsMismatch(rule_instance, index, rule_type_instance)
    IN
    IF rule_type_instance.tag = rule_instance.tag
    THEN {fields_result}
    ELSE IF is_union(rule_type_instance.tag)
    THEN LET members == get_union_members(kb.resource_blocks, rule_type_instance.tag)
         IN
         IF rule_instance.tag \notin members /\ members # {}
         THEN LET results == UnionMemberResults(kb, rule_instance,
                                                rule_type_instance, index)
                  errors == {r \in results : r.res = "Err"}
              IN  IF errors # {}
                  THEN errors
                  ELSE IF ~(\E r \in results : r.res = "True")
                  THEN {NotAMember(rule_instance, index, rule_type_instance)}
                  ELSE {fields_result}
         ELSE {fields_result}
    ELSE {check_rule_instance_is_subclass_of_rule_type_instance(
              kb, rule_instance, rule_type_instance, index)}

\* check_pattern_param without its first branch: equal tags are sent to the
\* subclass check like any other pair of class tags
check_instance_pattern_param_without_same_tag(kb, index, rule_instance, rule_type_instance) ==
    IF is_union(rule_type_instance.tag)
    THEN IF rule_instance.tag = rule_type_instance.tag
         THEN {IF param_fields_match(rule_type_instance.fields, rule_instance.fields)
               THEN MatchTrue
               ELSE FieldsMismatch(rule_instance, index, rule_type_instance)}
         ELSE {NotAMember(rule_instance, index, rule_type_instance)}
    ELSE {check_rule_instance_is_subclass_of_rule_type_instance(
              kb, rule_instance, rule_type_instance, index)}

\* KnowledgeBase::check_pattern_param, both patterns instance patterns
check_instance_pattern_param(kb, index, rule_instance, rule_type_instance) ==
    LET fields_ok == param_fields_match(rule_type_instance.fields, rule_instance.fields)
        fields_result == IF fields_ok THEN MatchTrue
                         ELSE FieldsMismatch(rule_instance, index, rule_type_instance)
    IN
    IF rule_type_instance.tag = rule_instance.tag
    THEN {fields_result}
    ELSE IF is_union(rule_type_instance.tag)
    THEN IF is_union(rule_instance.tag)
         THEN IF rule_instance.tag = rule_type_instance.tag
              THEN {fields_result}
              ELSE {MatchFalse(<<"Rule specializer ", rule_instance.tag,
                                 " on parameter ", ToString(index),
                                 " does not match rule type specializer ",
                                 rule_type_instance.tag>>)}
         ELSE LET members == get_union_members(kb.resource_blocks, rule_type_instance.tag)
              IN
              IF rule_instance.tag \notin members
              THEN LET results == UnionMemberResults(kb, rule_instance,
                                                     rule_type_instance, index)
                       errors == {r \in results : r.res = "Err"}
                   IN  IF errors # {}
                       THEN errors
                       ELSE IF ~(\E r \in results : r.res = "True")
                       THEN {NotAMember(rule_instance, index, rule_type_instance)}
                       ELSE {fields_result}
              ELSE {fields_result}
    ELSE {check_rule_instance_is_subclass_of_rule_type_instance(
              kb, rule_instance, rule_type_instance, index)}

\* KnowledgeBase::check_pattern_param
check_pattern_param(kb, index, rule_pattern, rule_type_pattern) ==
    IF rule_type_pattern.pkind = "Instance" /\ rule_pattern.pkind = "Instance"
    THEN check_instance_pattern_param(kb, index,
                                      InstanceLiteral(rule_pattern.tag, rule_pattern.fields),
                                      InstanceLiteral(rule_type_pattern.tag,
                                                      rule_type_pattern.fields))
    ELSE IF rule_type_pattern.pkind = "Dictionary"
    THEN IF param_fields_match(rule_type_pattern.fields, rule_pattern.fields)
         THEN {MatchTrue}
         ELSE {MatchFalse(<<"Specializer mismatch on parameter ", ToString(index),
                            ". Rule specializer fields do not match rule type specializer fields.">>)}
    ELSE IF rule_type_pattern.tag = "Dictionary"
    THEN IF param_fields_match(rule_type_pattern.fields, rule_pattern.fields)
         THEN {MatchTrue}
         ELSE {MatchFalse(<<"Specializer mismatch on parameter ", ToString(index),
                            ". Rule specializer fields do not match rule type specializer fields.">>)}
    ELSE {MatchFalse(<<"Mismatch on parameter ", ToString(index),
                       ". Rule parameter does not match rule type parameter.">>)}

\* check_value_param without the *rest test: the elements of the rule-type
\* list, the *rest variable among them, are looked up in the rule list
check_value_param_allowing_rest(index, rule_value, rule_type_value, rule_type) ==
    IF rule_type_value.kind = "List" /\ rule_value.kind = "List"
    THEN IF \A i \in 1 .. Len(rule_type_value.elems) :
                ListContains(rule_value.elems, rule_type_value.elems[i])
         THEN MatchTrue
         ELSE MatchFalse(<<"Invalid parameter ", ToString(index),
                           ". Rule type expected list, got list.">>)
    ELSE IF rule_type_value.kind = "Dictionary" /\ rule_value.kind = "Dictionary"
    THEN IF param_fields_match(rule_type_value.fields, rule_value.fields)
         THEN MatchTrue
         ELSE MatchFalse(<<"Invalid parameter ", ToString(index),
                           ". Rule type expected Dictionary with fields, got Dictionary with fields">>)
    ELSE IF ValueEq(rule_type_value, rule_value)
    THEN MatchTrue
    ELSE MatchFalse(<<"Invalid parameter ", ToString(index),
                      ". Rule value != rule type value">>)

\* check_value_param demanding that the two lists be the same list
check_value_param_same_list(index, rule_value, rule_type_value, rule_type) ==
    IF rule_type_value.kind = "List" /\ rule_value.kind = "List"
    THEN IF has_rest_var(rule_type_value.elems)
         THEN MatchErr("InvalidRuleType",
                       <<"Rule types cannot contain *rest variables.">>, rule_type)
         ELSE IF /\ Len(rule_type_value.elems) = Len(rule_value.elems)
                 /\ \A i \in 1 .. Len(rule_type_value.elems) :
                       ValueEq(rule_value.elems[i], rule_type_value.elems[i])
         THEN MatchTrue
         ELSE MatchFalse(<<"Invalid parameter ", ToString(index),
                           ". Rule type expected list, got list.">>)
    ELSE IF rule_type_value.kind = "Dictionary" /\ rule_value.kind = "Dictionary"
    THEN IF param_fields_match(rule_type_value.fields, rule_value.fields)
         THEN MatchTrue
         ELSE MatchFalse(<<"Invalid parameter ", ToString(index),
                           ". Rule type expected Dictionary with fields, got Dictionary with fields">>)
    ELSE IF ValueEq(rule_type_value, rule_value)
    THEN MatchTrue
    ELSE MatchFalse(<<"Invalid parameter ", ToString(index),
                      ". Rule value != rule type value">>)

\* KnowledgeBase::check_value_param
check_value_param(index, rule_value, rule_type_value, rule_type) ==
    IF rule_type_value.kind = "List" /\ rule_value.kind = "List"
    THEN IF has_rest_var(rule_type_value.elems)
         THEN MatchErr("InvalidRuleType",
                       <<"Rule types cannot contain *rest variables.">>, rule_type)
         ELSE IF \A i \in 1 .. Len(rule_type_value.elems) :
                    ListContains(rule_value.elems, rule_type_value.elems[i])
         THEN MatchTrue
         ELSE MatchFalse(<<"Invalid parameter ", ToString(index),
                           ". Rule type expected list, got list.">>)
    ELSE IF rule_type_value.kind = "Dictionary" /\ rule_value.kind = "Dictionary"
    THEN IF param_fields_match(rule_type_value.fields, rule_value.fields)
         THEN MatchTrue
         ELSE MatchFalse(<<"Invalid parameter ", ToString(index),
                           ". Rule type expected Dictionary with fields, got Dictionary with fields">>)
    ELSE IF ValueEq(rule_type_value, rule_value)
    THEN MatchTrue
    ELSE MatchFalse(<<"Invalid parameter ", ToString(index),
                      ". Rule value != rule type value">>)

\* the instance pattern of a rule value with every number taken as an Integer
ValueAsInstanceNumbersAlike(rule_value) ==
    IF rule_value.kind = "String" THEN Some(instance("String"))
    ELSE IF rule_value.kind = "Integer" THEN Some(instance("Integer"))
    ELSE IF rule_value.kind = "Float" THEN Some(instance("Integer"))
    ELSE IF rule_value.kind = "Boolean" THEN Some(instance("Boolean"))
    ELSE IF rule_value.kind = "List" THEN Some(instance("List"))
    ELSE IF rule_value.kind = "Dictionary"
    THEN Some(InstanceLiteral("Dictionary", rule_value.fields))
    ELSE None

\* the instance pattern check_param synthesizes from a rule value:
\* Some(InstanceLiteral) or None ("cannot be a specializer")
ValueAsInstance(rule_value) ==
    IF rule_value.kind = "String" THEN Some(instance("String"))
    ELSE IF rule_value.kind = "Integer" THEN Some(instance("Integer"))
    ELSE IF rule_value.kind = "Float" THEN Some(instance("Float"))
    ELSE IF rule_value.kind = "Boolean" THEN Some(instance("Boolean"))
    ELSE IF rule_value.kind = "List" THEN Some(instance("List"))
    ELSE IF rule_value.kind = "Dictionary"
    THEN Some(InstanceLiteral("Dictionary", rule_value.fields))
    ELSE None

\* check_param, rule type with a pattern specializer against a rule value
check_value_against_pattern(kb, index, rule_value, rule, rule_type_spec) ==
    IF rule_type_spec.pkind = "Instance"
    THEN LET rule_spec == ValueAsInstance(rule_value) IN
         IF rule_spec = None
         THEN {MatchErr("InvalidRule",
                        <<"Value variant ", rule_value.kind, " cannot be a specializer">>,
                        rule)}
         ELSE check_pattern_param(kb, index, PatternInstance(rule_spec[1]), rule_type_spec)
    ELSE IF rule_value.kind = "Dictionary"
    THEN IF param_fields_match(rule_type_spec.fields, rule_value.fields)
         THEN {MatchTrue}
         ELSE {MatchFalse(<<"Invalid parameter ", ToString(index),
                            ". Rule type expected Dictionary with fields, got dictionary with fields.">>)}
    ELSE {MatchFalse(<<"Invalid parameter ", ToString(index),
                       ". Rule type expected Dictionary, got ", rule_value.kind, ".">>)}

\* check_param with the arm of the rule type without specializer placed
\* after the arms that compare values
check_param_values_first(kb, index, rule_param, rule, rule_type_param, rule_type) ==
    LET tp == rule_type_param.parameter
        ts == rule_type_param.specializer
        rp == rule_param.parameter
        rs == rule_param.specializer
        tvar == tp.kind = "Variable"
        rvar == rp.kind = "Variable"
        tpat == ts # None /\ ts[1].kind = "Pattern"
        rpat == rs # None /\ rs[1].kind = "Pattern"
    IN
    IF tvar /\ tpat /\ rvar /\ rpat
    THEN check_pattern_param(kb, index, rs[1], ts[1])
    ELSE IF tvar /\ tpat /\ ts[1].pkind = "Instance" /\ rvar /\ rs = None
    THEN {MatchFalse(<<"Parameter '", rp.v, "' expects a ", ts[1].tag,
                       " type constraint.\n\n\t", rp.v, ": ", ts[1].tag>>)}
    ELSE IF tvar /\ ts # None /\ rvar /\ rs = None
    THEN {MatchFalse(<<"Invalid rule parameter ", ToString(index),
                       ". Rule type expected ">>)}
    ELSE IF tvar /\ tpat /\ rvar /\ rs # None
    THEN check_value_against_pattern(kb, index, rs[1], rule, ts[1])
    ELSE IF tvar /\ tpat /\ rs = None
    THEN check_value_against_pattern(kb, index, rp, rule, ts[1])
    ELSE IF tvar /\ ts # None /\ rvar /\ rs # None
    THEN {check_value_param(index, rs[1], ts[1], rule_type)}
    ELSE IF tvar /\ ts # None /\ rs = None
    THEN {check_value_param(index, rp, ts[1], rule_type)}
    ELSE IF ts = None /\ rs = None
    THEN {check_value_param(index, rp, tp, rule_type)}
    ELSE IF tvar /\ ts = None
    THEN {MatchTrue}
    ELSE {MatchFalse(<<"Invalid parameter ", ToString(index),
                       ". Rule parameter does not match rule type parameter">>)}

\* KnowledgeBase::check_param: the arms of its match, in order
check_param(kb, index, rule_param, rule, rule_type_param, rule_type) ==
    LET tp == rule_type_param.parameter
        ts == rule_type_param.specializer
        rp == rule_param.parameter
        rs == rule_param.specializer
        tvar == tp.kind = "Variable"
        rvar == rp.kind = "Variable"
        tpat == ts # None /\ ts[1].kind = "Pattern"
        rpat == rs # None /\ rs[1].kind = "Pattern"
    IN
    IF tvar /\ tpat /\ rvar /\ rpat
    THEN check_pattern_param(kb, index, rs[1], ts[1])
    ELSE IF tvar /\ tpat /\ ts[1].pkind = "Instance" /\ rvar /\ rs = None
    THEN {MatchFalse(<<"Parameter '", rp.v, "' expects a ", ts[1].tag,
                       " type constraint.\n\n\t", rp.v, ": ", ts[1].tag>>)}
    ELSE IF tvar /\ ts # None /\ rvar /\ rs = None
    THEN {MatchFalse(<<"Invalid rule parameter ", ToString(index),
                       ". Rule type expected ">>)}
    ELSE IF tvar /\ tpat /\ rvar /\ rs # None
    THEN check_value_against_pattern(kb, index, rs[1], rule, ts[1])
    ELSE IF tvar /\ tpat /\ rs = None
    THEN check_value_against_pattern(kb, index, rp, rule, ts[1])
    ELSE IF tvar /\ ts = None
    THEN {MatchTrue}
    ELSE IF tvar /\ ts # None /\ rvar /\ rs # None
    THEN {check_value_param(index, rs[1], ts[1], rule_type)}
    ELSE IF tvar /\ ts # None /\ rs = None
    THEN {check_value_param(index, rp, ts[1], rule_type)}
    ELSE IF ts = None /\ rs = None
    THEN {check_value_param(index, rp, tp, rule_type)}
    ELSE {MatchFalse(<<"Invalid parameter ", ToString(index),
                       ". Rule parameter does not match rule type parameter">>)}

\* the parameter checks collected with the message of the last failing
\* parameter instead of the first
RECURSIVE CollectParamsLastFailure(_, _, _, _)
CollectParamsLastFailure(kb, rule, rule_type, index) ==
    IF index > Len(rule.params)
    THEN {MatchTrue}
    ELSE LET here == check_param(kb, index, rule.params[index], rule,
                                 rule_type.params[index], rule_type)
             rest == CollectParamsLastFailure(kb, rule, rule_type, index + 1)
         IN  {IF h.res = "Err" THEN h
              ELSE IF r.res = "Err" THEN r
              ELSE IF r.res = "False" THEN r
              ELSE h : h \in here, r \in rest}

\* the results of the parameter checks index .. n collected into one result:
\* the first error if there is one, else the first failure, else True
RECURSIVE CollectParams(_, _, _, _)
CollectParams(kb, rule, rule_type, index) ==
    IF index > Len(rule.params)
    THEN {MatchTrue}
    ELSE LET here == check_param(kb, index, rule.params[index], rule,
                                 rule_type.params[index], rule_type)
             rest == CollectParams(kb, rule, rule_type, index + 1)
         IN  {IF h.res = "Err" THEN h
              ELSE IF r.res = "Err" THEN r
              ELSE IF h.res = "False" THEN h
              ELSE r : h \in here, r \in rest}

\* KnowledgeBase::rule_params_match: the set of results
rule_params_match(kb, rule, rule_type) ==
    IF Len(rule.params) # Len(rule_type.params)
    THEN {MatchFalse(<<"Different number of parameters. Rule has ",
                       ToString(Len(rule.params)),
                       " parameter(s) but rule type has ",
                       ToString(Len(rule_type.params)), ".">>)}
    ELSE CollectParams(kb, rule, rule_type, 1)

----------------------------------------------------------------------------
(* Shape validator: the two phases of validate_rule_types.                 *)
(*                                                                         *)
(* The rule store is a HashMap of generic rules, each a map from rule id   *)
(* to rule, and the required rule types are iterated in no specified       *)
(* order, so validate_rule_types yields the set of results some iteration  *)
(* order produces.                                                         *)

ValidationOk == [res |-> "Ok", kind |-> "", msg |-> << >>, rule |-> NoRule]

MustMatchHeader == "Must match one of the following rule types:\n"

\* the part of an InvalidRule message about one rule type that failed
FailedToMatch(rule_type, message) ==
    <<"\n", rule_type.name, "\n\tFailed to match because: ">> \o message \o <<"\n">>

RECURSIVE InvalidRuleMsg(_, _, _, _)
InvalidRuleMsg(kb, rule, types, j) ==
    IF j > Len(types) THEN << >>
    ELSE LET result == CHOOSE r \in rule_params_match(kb, rule, types[j]) : TRUE
         IN  FailedToMatch(types[j], result.msg) \o InvalidRuleMsg(kb, rule, types, j + 1)

\* the first loop demanding that the rule match every rule type of its name
RuleConformanceAll(kb, rule, types) ==
    LET failing == {j \in 1 .. Len(types) :
                      \E r \in rule_params_match(kb, rule, types[j]) : r.res = "Err"}
    IN
    IF failing # {}
    THEN LET first == CHOOSE j \in failing : \A k \in failing : j <= k
         IN  rule_params_match(kb, rule, types[first])
    ELSE IF \A j \in 1 .. Len(types) : MatchTrue \in rule_params_match(kb, rule, types[j])
    THEN {ValidationOk}
    ELSE {MatchErr("InvalidRule",
                   <<MustMatchHeader>> \o InvalidRuleMsg(kb, rule, types, 1), rule)}

\* the first loop stopping at the first rule type the rule matches, the
\* rule types after it left unevaluated
RuleConformanceUntilMatch(kb, rule, types) ==
    LET matching == {j \in 1 .. Len(types) :
                       MatchTrue \in rule_params_match(kb, rule, types[j])}
        last == IF matching = {} THEN Len(types)
                ELSE CHOOSE j \in matching : \A k \in matching : j <= k
        failing == {j \in 1 .. last :
                      \E r \in rule_params_match(kb, rule, types[j]) : r.res = "Err"}
    IN
    IF failing # {}
    THEN LET first == CHOOSE j \in failing : \A k \in failing : j <= k
         IN  rule_params_match(kb, rule, types[first])
    ELSE IF matching # {}
    THEN {ValidationOk}
    ELSE {MatchErr("InvalidRule",
                   <<MustMatchHeader>> \o InvalidRuleMsg(kb, rule, types, 1), rule)}

\* validate_rule_types, first loop, for one rule and the rule types of its
\* name: Ok, the first error of a match attempt, or InvalidRule
RuleConformance(kb, rule, types) ==
    LET failing == {j \in 1 .. Len(types) :
                      \E r \in rule_params_match(kb, rule, types[j]) : r.res = "Err"}
    IN
    IF failing # {}
    THEN LET first == CHOOSE j \in failing : \A k \in failing : j <= k
         IN  rule_params_match(kb, rule, types[first])
    ELSE IF \E j \in 1 .. Len(types) : MatchTrue \in rule_params_match(kb, rule, types[j])
    THEN {ValidationOk}
    ELSE {MatchErr("InvalidRule",
                   <<MustMatchHeader>> \o InvalidRuleMsg(kb, rule, types, 1), rule)}

\* validate_rule_types, first loop: the errors it can return
ConformanceErrors(kb, rs, rt) ==
    UNION {UNION {RuleConformance(kb, rs[name][i], rt.types[name]) \ {ValidationOk} :
                  i \in 1 .. Len(rs[name])} :
           name \in (DOMAIN rs) \cap (DOMAIN rt.types)}

\* the second loop without its else branch: a required rule type whose name
\* has no rule passes
RequiredCoverageNamedOnly(kb, rs, rule_type) ==
    IF rule_type.name \in DOMAIN rs
    THEN LET rules_of == rs[rule_type.name]
             results == UNION {rule_params_match(kb, rules_of[i], rule_type) :
                               i \in 1 .. Len(rules_of)}
             errors == {r \in results : r.res = "Err"}
         IN  IF MatchTrue \in results
             THEN {ValidationOk} \cup errors
             ELSE IF errors # {}
             THEN errors
             ELSE {MatchErr("MissingRequiredRule", << >>, rule_type)}
    ELSE {ValidationOk}

\* validate_rule_types, second loop, for one required rule type
RequiredCoverage(kb, rs, rule_type) ==
    IF rule_type.name \in DOMAIN rs
    THEN LET rules_of == rs[rule_type.name]
             results == UNION {rule_params_match(kb, rules_of[i], rule_type) :
                               i \in 1 .. Len(rules_of)}
             errors == {r \in results : r.res = "Err"}
         IN  IF MatchTrue \in results
             THEN {ValidationOk} \cup errors
             ELSE IF errors # {}
             THEN errors
             ELSE {MatchErr("MissingRequiredRule", << >>, rule_type)}
    ELSE {MatchErr("MissingRequiredRule", << >>, rule_type)}

\* validate_rule_types, second loop: the results it can return
CoverageResults(kb, rs, rt) ==
    LET required == RuleTypesRequired(rt)
        failures == UNION {RequiredCoverage(kb, rs, t) \ {ValidationOk} : t \in required}
    IN  failures \cup
        (IF \A t \in required : ValidationOk \in RequiredCoverage(kb, rs, t)
         THEN {ValidationOk} ELSE {})

\* validate_rule_types running its second loop even when the first one
\* found an error, and reporting the uncovered required rule type first
validate_rule_types_coverage_first(kb, rs, rt) ==
    LET errors == ConformanceErrors(kb, rs, rt)
        missing == CoverageResults(kb, rs, rt) \ {ValidationOk}
    IN  IF missing # {} THEN missing
        ELSE IF errors # {} THEN errors
        ELSE {ValidationOk}

\* KnowledgeBase::validate_rule_types: the results it can return
validate_rule_types(kb, rs, rt) ==
    LET errors == ConformanceErrors(kb, rs, rt) IN
    IF errors # {} THEN errors ELSE CoverageResults(kb, rs, rt)

\* the part of the knowledge base the match attempts read
KB == [constants |-> constants, mro |-> mro, resource_blocks |-> resource_blocks]

\* check_undefined_rule_calls reads the rule bodies, which are not part of
\* this model: its diagnostics are an input of the call
UndefinedRuleCall == MatchErr("UndefinedRuleCall", << >>, NoRule)

RuleCallDiagnostics == {<< >>, <<UndefinedRuleCall>>}

\* KnowledgeBase::validate_rules
validate_rules ==
    /\ \E e \in validate_rule_types(KB, rules, rule_types),
          calls \in RuleCallDiagnostics :
          ret' = Ok("validate_rules",
                    (IF e.res = "Ok" THEN << >> ELSE <<e>>) \o calls)
    /\ UNCHANGED <<constants, mro, loaded_files, loaded_content, rules,
                   rule_types, sources, gensym_counter, id_counter,
                   inline_queries, resource_blocks, issued>>

----------------------------------------------------------------------------
(* Inputs of the calls.                                                    *)

\* rule!(name, [x: Tag]) and friends
Specialized(tag) == Parameter(Variable("x"), Some(PatternInstance(instance(tag))))
Unspecialized == Parameter(Variable("x"), None)
ValueParam(v) == Parameter(v, None)

\* sources given to add_source
SourceInputs ==
    {Source(src, filename) : src \in {"f();", "g();"},
                             filename \in {None, Some("f"), Some("g")}}

\* constants given to register_constant
ConstantInputs ==
    {<<"Fruit", ExternalInstance(1)>>, <<"Citrus", ExternalInstance(2)>>,
     <<"Citrus", String("not an external instance")>>,
     <<"Fruit", ExternalInstance(3)>>,
     <<ACTOR_UNION_NAME, ExternalInstance(1)>>,
     <<RESOURCE_UNION_NAME, ExternalInstance(2)>>}

\* MRO lists given to add_mro
MroInputs ==
    {<<"Fruit", <<1>> >>, <<"Citrus", <<2, 1>> >>, <<"Citrus", <<2>> >>,
     <<"Orange", <<3, 2, 1>> >>, <<ACTOR_UNION_NAME, <<1>> >>}

----------------------------------------------------------------------------
(* Specifications.                                                         *)

Init ==
    /\ constants = EmptyMap
    /\ mro = EmptyMap
    /\ loaded_files = EmptyMap
    /\ loaded_content = EmptyMap
    /\ rules = EmptyMap
    /\ rule_types = RuleTypesDefault
    /\ sources = SourcesDefault
    /\ gensym_counter = CounterDefault
    /\ id_counter = CounterDefault
    /\ inline_queries = << >>
    /\ resource_blocks = ResourceBlocksDefault
    /\ ret = NoCall
    /\ issued = << >>

(* The source registry and the id counter. *)

AddSource == \E source \in SourceInputs : add_source(source)

NewId == new_id

ClearRules == clear_rules

NextSources == AddSource \/ NewId \/ ClearRules

SpecSources == Init /\ [][NextSources]_vars

(* The same, for a knowledge base whose id counter is about to wrap. *)

InitNearWrap ==
    /\ constants = EmptyMap
    /\ mro = EmptyMap
    /\ loaded_files = EmptyMap
    /\ loaded_content = EmptyMap
    /\ rules = EmptyMap
    /\ rule_types = RuleTypesDefault
    /\ sources = SourcesDefault
    /\ gensym_counter = CounterDefault
    /\ id_counter = CounterNearWrap
    /\ inline_queries = << >>
    /\ resource_blocks = ResourceBlocksDefault
    /\ ret = NoCall
    /\ issued = << >>

SpecWrap == InitNearWrap /\ [][NextSources]_vars

(* The class and MRO registry. *)

RegisterConstant == \E c \in ConstantInputs : register_constant(c[1], c[2])

AddMro == \E m \in MroInputs : add_mro(m[1], m[2])

NextRegistry == RegisterConstant \/ AddMro \/ ClearRules

SpecRegistry == Init /\ [][NextRegistry]_vars

----------------------------------------------------------------------------
(* Claims about the source registry and the id counter.                    *)

AlreadyLoaded(f) == <<"File ", f, " has already been loaded.">>

DifferentContents(f) ==
    <<"A file with the name ", f, ", but different contents has already been loaded.">>

SameContents(f, f2) ==
    <<"A file with the same contents as ", f, " named ", f2, " has already been loaded.">>

\* C1: an add_source of a source with a filename is rejected with
\* FileLoading exactly when the filename is in loaded_files or the content
\* is in loaded_content; the message is "File F has already been loaded."
\* when the filename is loaded and the content maps to it, "... but
\* different contents ..." in every other case where the filename is
\* loaded, and "... same contents as F named F2 ..." when only the content
\* is loaded, under F2.
C1_AddSourceRejection ==
    [][\A s \in SourceInputs :
         (s.filename # None /\ add_source(s)) =>
            LET f == s.filename[1]
                name_loaded == f \in DOMAIN loaded_files
                content_loaded == s.src \in DOMAIN loaded_content
            IN  /\ ret'.ok <=> ~(name_loaded \/ content_loaded)
                /\ ~ret'.ok => ret'.kind = "FileLoading"
                /\ (name_loaded /\ content_loaded /\ loaded_content[s.src] = f)
                      => ret'.msg = AlreadyLoaded(f)
                /\ (name_loaded /\ ~(content_loaded /\ loaded_content[s.src] = f))
                      => ret'.msg = DifferentContents(f)
                /\ (~name_loaded /\ content_loaded)
                      => ret'.msg = SameContents(f, loaded_content[s.src])]_vars

\* C1 witness: a source was just rejected because its content is loaded
\* under another name, while a file of its own name was admitted before
C1_Witness ==
    /\ ret.op = "add_source"
    /\ ret.kind = "FileLoading"
    /\ ret.msg = SameContents("g", "f")
    /\ \E i \in 1 .. Len(issued) : issued[i].by = "add_source"

\* C2: loaded_files and loaded_content are in one-to-one correspondence,
\* and the source stored under loaded_files[f] has filename f and the
\* content that loaded_content maps to f.
C2_FileContentBijection ==
    /\ \A f \in DOMAIN loaded_files :
          /\ Cardinality({src \in DOMAIN loaded_content : loaded_content[src] = f}) = 1
          /\ loaded_files[f] \in DOMAIN sources
          /\ sources[loaded_files[f]].filename = Some(f)
          /\ sources[loaded_files[f]].src \in DOMAIN loaded_content
          /\ loaded_content[sources[loaded_files[f]].src] = f
    /\ \A src \in DOMAIN loaded_content : loaded_content[src] \in DOMAIN loaded_files

\* C2 witness: two files are loaded after an earlier rejection
C2_Witness ==
    /\ Cardinality(DOMAIN loaded_files) = 2
    /\ \E i \in 1 .. Len(issued) : issued[i].by = "rejected"

\* the ids the callers received: from new_id and from successful add_source
Returned == {i \in 1 .. Len(issued) : issued[i].by \in {"new_id", "add_source"}}

\* C4: below the wrap, the ids returned by successful add_source calls and
\* by new_id are pairwise distinct, across clear_rules too.
C4_IdsNeverReused ==
    \A i, j \in Returned : i # j => issued[i].id # issued[j].id

\* C4 witness: a source id handed out before a clear_rules (its source is
\* gone), a new_id after it and a source admitted after both
C4_Witness ==
    \E i, j, k \in 1 .. Len(issued) :
        /\ i < j /\ j < k
        /\ issued[i].by = "add_source" /\ issued[i].id \notin DOMAIN sources
        /\ issued[j].by = "new_id"
        /\ issued[k].by = "add_source" /\ issued[k].id \in DOMAIN sources

\* the positions of two successive new_id calls
SuccessiveNewIds ==
    {p \in (1 .. Len(issued)) \X (1 .. Len(issued)) :
        /\ p[1] < p[2]
        /\ issued[p[1]].by = "new_id" /\ issued[p[2]].by = "new_id"
        /\ \A k \in (p[1] + 1) .. (p[2] - 1) : issued[k].by # "new_id"}

\* C5 as stated: every value returned by new_id fits in 52 bits and is
\* strictly greater than the value the previous call returned.
C5_StrictlyIncreasing ==
    /\ \A i \in 1 .. Len(issued) : issued[i].by = "new_id" => FitsIn52Bits(issued[i].id)
    /\ \A p \in SuccessiveNewIds : IdLess(issued[p[1]].id, issued[p[2]].id)

\* C5 amended: every value returned by new_id fits in 52 bits, and is
\* strictly greater than the value the previous call returned unless the
\* counter passed its largest value 2^52 - 1 in between, after which it
\* starts again from 0.
C5_IncreasingUpToWrap ==
    /\ \A i \in 1 .. Len(issued) : issued[i].by = "new_id" => FitsIn52Bits(issued[i].id)
    /\ \A p \in SuccessiveNewIds :
          \/ IdLess(issued[p[1]].id, issued[p[2]].id)
          \/ \E k \in p[1] .. (p[2] - 1) : issued[k].id = CounterMax

\* C5 witness: new_id returned 2^52 - 1 and the next new_id returned 0
C5_Witness ==
    \E p \in SuccessiveNewIds :
        issued[p[1]].id = CounterMax /\ issued[p[2]].id = <<0, 0>>

----------------------------------------------------------------------------
(* Claims about the class and MRO registry.                                *)

\* C6: register_constant of Actor or Resource returns InvalidRegistration
\* and leaves constants unchanged; of any other name it succeeds and sets
\* constants[name] to the term, replacing any previous value.
C6_RegisterConstant ==
    [][\A c \in ConstantInputs :
         register_constant(c[1], c[2]) =>
            IF c[1] \in {"Actor", "Resource"}
            THEN /\ ~ret'.ok /\ ret'.kind = "InvalidRegistration"
                 /\ constants' = constants
            ELSE /\ ret'.ok
                 /\ DOMAIN constants' = (DOMAIN constants) \cup {c[1]}
                 /\ constants'[c[1]] = c[2]
                 /\ \A n \in (DOMAIN constants) \ {c[1]} : constants'[n] = constants[n]]_vars

\* C6 witness: Resource was just refused while Fruit holds the value of its
\* second registration
C6_Witness ==
    /\ ret.op = "register_constant"
    /\ ret.kind = "InvalidRegistration"
    /\ ret.msg[2] = "Resource"
    /\ "Fruit" \in DOMAIN constants
    /\ "Fruit" \in DOMAIN mro
    /\ constants["Fruit"] = ExternalInstance(3)

\* C7: add_mro of a name that is not a registered constant returns
\* InvalidState and leaves mro unchanged; of a registered name it succeeds
\* and stores the list as mro[name], replacing any previous list.
C7_AddMro ==
    [][\A m \in MroInputs :
         add_mro(m[1], m[2]) =>
            IF m[1] \notin DOMAIN constants
            THEN /\ ~ret'.ok /\ ret'.kind = "InvalidState"
                 /\ mro' = mro
            ELSE /\ ret'.ok
                 /\ DOMAIN mro' = (DOMAIN mro) \cup {m[1]}
                 /\ mro'[m[1]] = m[2]
                 /\ \A n \in (DOMAIN mro) \ {m[1]} : mro'[n] = mro[n]]_vars

\* C7 witness: an MRO for the unregistered Orange was just refused while
\* the registered Citrus has one
C7_Witness ==
    /\ ret.op = "add_mro"
    /\ ret.kind = "InvalidState"
    /\ ret.msg[2] = "Orange"
    /\ "Citrus" \in DOMAIN mro

----------------------------------------------------------------------------
(* The shape validator over a small class hierarchy.                       *)

\* classes registered by the host: Citrus is a subclass of Fruit; Orange
\* is never registered
ClassInputs == {<<"Fruit", ExternalInstance(1)>>, <<"Citrus", ExternalInstance(2)>>}

ClassMroInputs == {<<"Fruit", <<1>> >>, <<"Citrus", <<2, 1>> >>}

\* rules given to add_rule
RuleInputs ==
    {Rule("f", <<Specialized("Fruit")>>, FALSE),
     Rule("f", <<Specialized("Citrus")>>, FALSE),
     Rule("f", <<Unspecialized>>, FALSE),
     Rule("g", <<Specialized("Fruit")>>, FALSE)}

\* rule types given to add_rule_type
RuleTypeInputs ==
    {Rule("f", <<Specialized("Fruit")>>, TRUE),
     Rule("f", <<Specialized("Citrus")>>, FALSE),
     Rule("f", <<Specialized("Orange")>>, FALSE),
     Rule("f", <<Specialized("Citrus"), ValueParam(Integer(1))>>, TRUE)}

RegisterClass == \E c \in ClassInputs : register_constant(c[1], c[2])

AddClassMro == \E m \in ClassMroInputs : add_mro(m[1], m[2])

AddRule == \E rule \in RuleInputs : add_rule(rule)

AddRuleType == \E rule_type \in RuleTypeInputs : add_rule_type(rule_type)

ValidateRules == validate_rules

NextValidate ==
    RegisterClass \/ AddClassMro \/ AddRule \/ AddRuleType \/ ValidateRules \/ ClearRules

SpecValidate == Init /\ [][NextValidate]_vars

----------------------------------------------------------------------------
(* Claims about validate_rules.                                            *)

\* the rule-type diagnostic of the last validate_rules call, if any
RuleTypeDiagnostics ==
    SelectSeq(ret.value, LAMBDA d : d.kind # "UndefinedRuleCall")

\* the stored rules whose name has a rule-type list
TypedRules ==
    UNION {{rules[name][i] : i \in 1 .. Len(rules[name])} :
           name \in (DOMAIN rules) \cap (DOMAIN rule_types.types)}

TypesOf(rule) == rule_types.types[rule.name]

Matches(rule, rule_type) == MatchTrue \in rule_params_match(KB, rule, rule_type)

EndsInError(rule, rule_type) ==
    \E r \in rule_params_match(KB, rule, rule_type) : r.res = "Err"

MatchesSome(rule) == \E j \in 1 .. Len(TypesOf(rule)) : Matches(rule, TypesOf(rule)[j])

\* some match attempt of the first loop ends in a validation error
StructuralError ==
    \E rule \in TypedRules :
        \E j \in 1 .. Len(TypesOf(rule)) : EndsInError(rule, TypesOf(rule)[j])

IsInvalidRule(d) ==
    d.kind = "InvalidRule" /\ d.msg # << >> /\ d.msg[1] = MustMatchHeader

\* C8: a rule whose name has no rule-type list never causes a rule-type
\* diagnostic (an InvalidRule names a rule that has one, and without typed
\* rules the only possible diagnostic is MissingRequiredRule); when some
\* rule whose name has a rule-type list matches none of them and no
\* structural error occurs, validate_rules returns an InvalidRule for such
\* a rule.
C8_Conformance ==
    ret.op = "validate_rules" =>
        /\ \A i \in 1 .. Len(RuleTypeDiagnostics) :
              IsInvalidRule(RuleTypeDiagnostics[i]) =>
                  RuleTypeDiagnostics[i].rule \in TypedRules
        /\ TypedRules = {} =>
              \A i \in 1 .. Len(RuleTypeDiagnostics) :
                  RuleTypeDiagnostics[i].kind = "MissingRequiredRule"
        /\ ((\E rule \in TypedRules : ~MatchesSome(rule)) /\ ~StructuralError) =>
              /\ Len(RuleTypeDiagnostics) = 1
              /\ IsInvalidRule(RuleTypeDiagnostics[1])
              /\ ~MatchesSome(RuleTypeDiagnostics[1].rule)

\* C8 witness: g(x: Fruit) has no rule type, f(x: Fruit) matches none of
\* the rule types of f, and validate_rules returned the InvalidRule for it
C8_Witness ==
    /\ ret.op = "validate_rules"
    /\ "g" \in DOMAIN rules
    /\ "g" \notin DOMAIN rule_types.types
    /\ Len(RuleTypeDiagnostics) = 1
    /\ IsInvalidRule(RuleTypeDiagnostics[1])
    /\ RuleTypeDiagnostics[1].rule = Rule("f", <<Specialized("Fruit")>>, FALSE)

\* C9 as stated: when every rule that has rule types matches at least one
\* of them, validate_rules reports no rule-type diagnostic on account of a
\* rule (at most a MissingRequiredRule), whatever the other match attempts
\* yield.
C9_OneMatchSuffices ==
    (ret.op = "validate_rules" /\ \A rule \in TypedRules : MatchesSome(rule)) =>
        \A i \in 1 .. Len(RuleTypeDiagnostics) :
            RuleTypeDiagnostics[i].kind = "MissingRequiredRule"

\* C9 amended: when every rule that has rule types matches at least one of
\* them and no match attempt against a rule type of its name ends in a
\* validation error, validate_rules reports no rule-type diagnostic on
\* account of a rule, whether the other attempts yield True or False.
C9_OneMatchSufficesWithoutError ==
    (/\ ret.op = "validate_rules"
     /\ \A rule \in TypedRules : MatchesSome(rule)
     /\ ~StructuralError) =>
        \A i \in 1 .. Len(RuleTypeDiagnostics) :
            RuleTypeDiagnostics[i].kind = "MissingRequiredRule"

\* C9 witness: f(x: Citrus) matches the rule type f(x: Fruit) and fails the
\* other rule type of f, and validate_rules reported nothing about rule types
C9_Witness ==
    /\ ret.op = "validate_rules"
    /\ RuleTypeDiagnostics = << >>
    /\ \E rule \in TypedRules :
          /\ Len(TypesOf(rule)) = 2
          /\ \E j, k \in 1 .. 2 :
                /\ Matches(rule, TypesOf(rule)[j])
                /\ ~Matches(rule, TypesOf(rule)[k])
                /\ ~EndsInError(rule, TypesOf(rule)[k])

\* the first loop of validate_rule_types produced no error
ConformanceHolds == (\A rule \in TypedRules : MatchesSome(rule)) /\ ~StructuralError

\* no stored rule of the rule type's name matches it (or there is none)
Uncovered(rule_type) ==
    \/ rule_type.name \notin DOMAIN rules
    \/ \A i \in 1 .. Len(rules[rule_type.name]) :
          ~Matches(rules[rule_type.name][i], rule_type)

\* C10: when conformance produced no error, validate_rules returns a
\* MissingRequiredRule (for an uncovered required rule type) if some
\* required rule type has no rule of its name or none that matches it, and
\* no rule-type diagnostic if every required rule type has a matching rule.
C10_RequiredCoverage ==
    (ret.op = "validate_rules" /\ ConformanceHolds) =>
        IF \E t \in rule_types.required : Uncovered(t)
        THEN /\ Len(RuleTypeDiagnostics) = 1
             /\ RuleTypeDiagnostics[1].kind = "MissingRequiredRule"
             /\ RuleTypeDiagnostics[1].rule \in rule_types.required
             /\ Uncovered(RuleTypeDiagnostics[1].rule)
        ELSE RuleTypeDiagnostics = << >>

\* C10 witness: a required rule type whose name has no rule at all was
\* reported missing while a rule of another name is loaded
C10_Witness ==
    /\ ret.op = "validate_rules"
    /\ Len(RuleTypeDiagnostics) = 1
    /\ RuleTypeDiagnostics[1].kind = "MissingRequiredRule"
    /\ RuleTypeDiagnostics[1].rule.name \notin DOMAIN rules
    /\ rules # EmptyMap

\* C11: validate_rules returns at most one rule-type diagnostic; when the
\* first loop finds a conformance error (InvalidRule or a structural error)
\* that error is the one reported and no MissingRequiredRule is, even with
\* a required rule type uncovered; otherwise at most one MissingRequiredRule
\* is reported; the undefined-rule-call diagnostics are returned in every
\* case and all come after the rule-type diagnostic.
C11_AtMostOneRuleTypeDiagnostic ==
    ret.op = "validate_rules" =>
        /\ Len(RuleTypeDiagnostics) <= 1
        /\ \A i \in 1 .. Len(ret.value) :
              ret.value[i].kind # "UndefinedRuleCall" => i = 1
        /\ ~ConformanceHolds =>
              /\ Len(RuleTypeDiagnostics) = 1
              /\ RuleTypeDiagnostics[1].kind \in
                    {"InvalidRule", "UnregisteredClass", "InvalidRuleType"}
        /\ ConformanceHolds =>
              \A i \in 1 .. Len(RuleTypeDiagnostics) :
                  RuleTypeDiagnostics[i].kind = "MissingRequiredRule"

\* C11 witness: validate_rules returned an InvalidRule followed by an
\* undefined-rule-call diagnostic while a required rule type is uncovered
C11_Witness ==
    /\ ret.op = "validate_rules"
    /\ Len(ret.value) = 2
    /\ IsInvalidRule(ret.value[1])
    /\ ret.value[2].kind = "UndefinedRuleCall"
    /\ \E t \in rule_types.required : Uncovered(t)

----------------------------------------------------------------------------
(* The whole knowledge base: every operation, on one file, one class, one  *)
(* rule and one rule type.                                                 *)

KbSourceInputs == {Source("f();", Some("f"))}

KbConstantInputs == {<<"Fruit", ExternalInstance(1)>>}

KbMroInputs == {<<"Fruit", <<1>> >>}

KbRuleInputs == {Rule("f", <<Unspecialized>>, FALSE)}

KbRuleTypeInputs == {Rule("f", <<Specialized("Fruit")>>, TRUE)}

KbAddSource == \E source \in KbSourceInputs : add_source(source)

KbRegisterConstant == \E c \in KbConstantInputs : register_constant(c[1], c[2])

KbAddMro == \E m \in KbMroInputs : add_mro(m[1], m[2])

KbAddRule == \E rule \in KbRuleInputs : add_rule(rule)

KbAddRuleType == \E rule_type \in KbRuleTypeInputs : add_rule_type(rule_type)

DeclareBlock == declare_block("resource", "Fruit")

AddInlineQuery == add_inline_query(Call("f"))

Gensym == gensym("x")

Next ==
    \/ KbAddSource \/ NewId \/ Gensym
    \/ KbRegisterConstant \/ KbAddMro
    \/ KbAddRule \/ KbAddRuleType \/ DeclareBlock \/ AddInlineQuery
    \/ ValidateRules
    \/ ClearRules

Spec == Init /\ [][Next]_vars

----------------------------------------------------------------------------
(* Claims about clear_rules.                                               *)

\* C3: clear_rules empties rules, the rule types and the required set,
\* sources, inline_queries, loaded_files, loaded_content and
\* resource_blocks, and leaves constants, mro and both counters unchanged;
\* so an add_source made right after it is admitted, and a validate_rules
\* made right after it reports no rule-type diagnostic.
C3_ClearRules ==
    [][/\ ret'.op = "clear_rules" =>
            /\ rules' = EmptyMap
            /\ rule_types'.types = EmptyMap
            /\ rule_types'.required = {}
            /\ sources' = EmptyMap
            /\ inline_queries' = << >>
            /\ loaded_files' = EmptyMap
            /\ loaded_content' = EmptyMap
            /\ resource_blocks' = ResourceBlocksDefault
            /\ constants' = constants
            /\ mro' = mro
            /\ id_counter' = id_counter
            /\ gensym_counter' = gensym_counter
       /\ (ret.op = "clear_rules" /\ ret'.op = "add_source") => ret'.ok
       /\ (ret.op = "clear_rules" /\ ret'.op = "validate_rules") =>
            \A i \in 1 .. Len(ret'.value) : ret'.value[i].kind = "UndefinedRuleCall"]_vars

\* C3 witness: file f was admitted, then rejected as already loaded, then
\* admitted again after a clear_rules that kept a registered class, its
\* MRO and an advanced gensym counter
C3_Witness ==
    /\ ret.op = "add_source" /\ ret.ok
    /\ "f" \in DOMAIN loaded_files
    /\ \E i, j \in 1 .. Len(issued) :
          /\ i < j
          /\ issued[i].by = "add_source" /\ issued[i].id \notin DOMAIN sources
          /\ issued[j].by = "rejected"
          /\ loaded_files["f"] = issued[Len(issued)].id
          /\ j < Len(issued)
    /\ "Fruit" \in DOMAIN constants
    /\ "Fruit" \in DOMAIN mro
    /\ gensym_counter # CounterDefault

----------------------------------------------------------------------------
(* The matcher on its own: rule_params_match called on pairs of rules of   *)
(* every shape, in a knowledge base that has the host classes or none.     *)

\* specializer fields
IdOne == [k \in {"id"} |-> Integer(1)]
IdTwo == [k \in {"id"} |-> Integer(2)]
IdOneNameDave == [k \in {"id", "name"} |-> IF k = "id" THEN Integer(1) ELSE String("Dave")]

\* rule!(name, [x: Tag{fields}]), [x: {fields}] and [x: value]
SpecializedWithFields(tag, fields) ==
    Parameter(Variable("x"), Some(PatternInstance(InstanceLiteral(tag, fields))))
DictionarySpecialized(fields) == Parameter(Variable("x"), Some(PatternDictionary(fields)))
ValueSpecialized(v) == Parameter(Variable("x"), Some(v))

\* the parameters of the rules given to rule_params_match, by position
ShapeParams ==
    << Unspecialized,                                                    \*  1
       Specialized("Fruit"),                                             \*  2
       Specialized("Citrus"),                                            \*  3
       Specialized(RESOURCE_UNION_NAME),                                 \*  4
       SpecializedWithFields("Fruit", IdOne),                            \*  5
       SpecializedWithFields("Fruit", IdOneNameDave),                    \*  6
       SpecializedWithFields("Fruit", IdTwo),                            \*  7
       SpecializedWithFields("Citrus", IdOneNameDave),                   \*  8
       SpecializedWithFields(RESOURCE_UNION_NAME, IdOne),                \*  9
       DictionarySpecialized(IdOne),                                     \* 10
       DictionarySpecialized(IdOneNameDave),                             \* 11
       SpecializedWithFields("Dictionary", IdOne),                       \* 12
       ValueSpecialized(Integer(1)),                                     \* 13
       ValueSpecialized(List(<<Integer(1), Integer(2)>>)),               \* 14
       ValueSpecialized(List(<<Integer(2), Integer(1)>>)),               \* 15
       ValueSpecialized(List(<<Integer(1), Integer(1), Integer(2)>>)),   \* 16
       ValueSpecialized(List(<<Integer(1), Integer(2), Integer(3)>>)),   \* 17
       ValueSpecialized(List(<<Integer(1), RestVariable("rest")>>)),     \* 18
       ValueSpecialized(Dictionary(IdOne)),                              \* 19
       ValueSpecialized(Dictionary(IdOneNameDave)),                      \* 20
       ValueParam(List(<<Integer(1), Integer(2)>>)),                     \* 21
       ValueParam(List(<<Integer(1), RestVariable("rest")>>)),           \* 22
       ValueParam(Integer(1)) >>                                         \* 23

ShapeRule(i) == Rule("f", <<ShapeParams[i]>>, FALSE)

\* the host classes of the tests: Citrus is a subclass of Fruit
HostClasses ==
    [n \in {"Fruit", "Citrus"} |->
        IF n = "Fruit" THEN ExternalInstance(1) ELSE ExternalInstance(2)]

HostMros == [n \in {"Fruit", "Citrus"} |-> IF n = "Fruit" THEN <<1>> ELSE <<2, 1>>]

\* a direct call of rule_params_match on the rules numbered i and j
call_rule_params_match(rule, rule_type, i, j) ==
    /\ \E result \in rule_params_match(KB, rule, rule_type) :
          ret' = Ok("rule_params_match",
                    [rule |-> i, rule_type |-> j, result |-> result])
    /\ UNCHANGED <<constants, mro, loaded_files, loaded_content, rules,
                   rule_types, sources, gensym_counter, id_counter,
                   inline_queries, resource_blocks, issued>>

InitShapes ==
    /\ \E registered \in BOOLEAN :
          /\ constants = IF registered THEN HostClasses ELSE EmptyMap
          /\ mro = IF registered THEN HostMros ELSE EmptyMap
    /\ loaded_files = EmptyMap
    /\ loaded_content = EmptyMap
    /\ rules = EmptyMap
    /\ rule_types = RuleTypesDefault
    /\ sources = SourcesDefault
    /\ gensym_counter = CounterDefault
    /\ id_counter = CounterDefault
    /\ inline_queries = << >>
    /\ resource_blocks = ResourceBlocksDefault
    /\ ret = NoCall
    /\ issued = << >>

MatchShapes ==
    \E i, j \in 1 .. Len(ShapeParams) :
        call_rule_params_match(ShapeRule(i), ShapeRule(j), i, j)

NextShapes == MatchShapes \/ DeclareBlock \/ ClearRules

SpecShapes == InitShapes /\ [][NextShapes]_vars

----------------------------------------------------------------------------
(* Claims about rule_params_match on rules of every shape.                 *)

\* the last call matched a rule against itself
MatchedAgainstItself ==
    ret.op = "rule_params_match" /\ ret.value.rule = ret.value.rule_type

ContainsRest(v) ==
    v.kind = "List" /\ \E i \in 1 .. Len(v.elems) : v.elems[i].kind = "RestVariable"

\* the rule has a list, as a parameter or as a specializer, that contains a
\* *rest variable
HasRestList(rule) ==
    \E i \in 1 .. Len(rule.params) :
        \/ ContainsRest(rule.params[i].parameter)
        \/ /\ rule.params[i].specializer # None
           /\ ContainsRest(rule.params[i].specializer[1])

\* C12 as stated: rule_params_match of a rule against itself returns True,
\* for every rule and in every state of the knowledge base.
C12_Reflexive ==
    MatchedAgainstItself => ret.value.result = MatchTrue

\* C12 amended: rule_params_match of a rule against itself returns True in
\* every state of the knowledge base unless the rule has a list with a *rest
\* variable, and then it returns the InvalidRuleType error.
C12_ReflexiveWithoutRest ==
    MatchedAgainstItself =>
        IF HasRestList(ShapeRule(ret.value.rule))
        THEN ret.value.result.res = "Err" /\ ret.value.result.kind = "InvalidRuleType"
        ELSE ret.value.result = MatchTrue

\* C12 witness: f(x: Citrus{id: 1, name: "Dave"}) matched itself in a
\* knowledge base without any registered class
C12_Witness ==
    /\ MatchedAgainstItself
    /\ ret.value.rule = 8
    /\ ret.value.result = MatchTrue
    /\ constants = EmptyMap

----------------------------------------------------------------------------
\* the parameters of the rule and of the rule type of the last call
ShapeOfRule == ShapeParams[ret.value.rule]
ShapeOfType == ShapeParams[ret.value.rule_type]

IsVariable(param) == param.parameter.kind = "Variable"
HasPatternSpecializer(param) ==
    param.specializer # None /\ param.specializer[1].kind = "Pattern"
HasValueSpecializer(param) ==
    param.specializer # None /\ param.specializer[1].kind # "Pattern"

\* C26: a rule-type parameter that is a variable without specializer matches
\* every rule parameter; a rule-type parameter with a specializer never
\* matches a rule parameter that is a variable without specializer; a
\* rule-type parameter with a value specializer never matches a rule
\* parameter with a pattern specializer.
C26_SpecializerPresence ==
    ret.op = "rule_params_match" =>
        /\ (IsVariable(ShapeOfType) /\ ShapeOfType.specializer = None)
              => ret.value.result = MatchTrue
        /\ (/\ ShapeOfType.specializer # None
            /\ IsVariable(ShapeOfRule) /\ ShapeOfRule.specializer = None)
              => ret.value.result.res = "False"
        /\ (HasValueSpecializer(ShapeOfType) /\ HasPatternSpecializer(ShapeOfRule))
              => ret.value.result.res = "False"

\* C26 witness: the rule f(x: Fruit) did not match the rule type f(x: 1)
\* in a knowledge base that has the host classes
C26_Witness ==
    /\ ret.op = "rule_params_match"
    /\ ShapeOfType = ValueSpecialized(Integer(1))
    /\ ShapeOfRule = Specialized("Fruit")
    /\ ret.value.result.res = "False"
    /\ "Fruit" \in DOMAIN constants

\* C26, second witness: the rule f([1, *rest]) matched the rule type f(x)
C26_MatchedUnspecialized ==
    /\ ret.op = "rule_params_match"
    /\ ShapeOfType = Unspecialized
    /\ ShapeOfRule = ValueParam(List(<<Integer(1), RestVariable("rest")>>))
    /\ ret.value.result = MatchTrue

----------------------------------------------------------------------------
(* The matcher over the class hierarchy and the unions: rule_params_match  *)
(* called on f(x: A) and f(x: B) while the host registers classes and MROs *)
(* and the policy declares actor and resource blocks.                      *)

\* the class tags and union tags of the specializers
TagInputs == <<"Fruit", "Citrus", "Orange", RESOURCE_UNION_NAME, ACTOR_UNION_NAME>>

TagRule(i) == Rule("f", <<Specialized(TagInputs[i])>>, FALSE)

\* the blocks declared by the policy: Orange is never registered
BlockInputs ==
    {<<"resource", "Fruit">>, <<"resource", "Citrus">>, <<"resource", "Orange">>,
     <<"actor", "Fruit">>}

DeclareMember == \E b \in BlockInputs : declare_block(b[1], b[2])

MatchTags ==
    \E i, j \in 1 .. Len(TagInputs) :
        call_rule_params_match(TagRule(i), TagRule(j), i, j)

NextMatch == RegisterConstant \/ AddMro \/ DeclareMember \/ MatchTags \/ ClearRules

SpecMatch == Init /\ [][NextMatch]_vars

----------------------------------------------------------------------------
(* Claims about the matcher over the class hierarchy and the unions.       *)

\* the tags of the rule and of the rule type of the last call
RuleTag == TagInputs[ret.value.rule]
TypeTag == TagInputs[ret.value.rule_type]

\* the last call matched f(x: A) against f(x: B), A and B class tags and B
\* registered as an ExternalInstance constant
MatchedClassTags ==
    /\ ret.op = "rule_params_match"
    /\ ~is_union(RuleTag) /\ ~is_union(TypeTag)
    /\ TypeTag \in DOMAIN constants
    /\ constants[TypeTag].kind = "ExternalInstance"

\* mro[tag] contains the instance id of the registered class
MroContains(tag, class) ==
    /\ tag \in DOMAIN mro
    /\ class \in DOMAIN constants
    /\ constants[class].kind = "ExternalInstance"
    /\ \E k \in 1 .. Len(mro[tag]) : mro[tag][k] = constants[class].instance_id

\* C13 as stated: for class tags A and B, B registered as an
\* ExternalInstance, f(x: A) matches the rule type f(x: B) if mro[A]
\* contains the instance id of B and does not match if it does not.
C13_RespectsMro ==
    MatchedClassTags =>
        (ret.value.result = MatchTrue <=> MroContains(RuleTag, TypeTag))

\* C13 amended: for distinct class tags A and B, B registered as an
\* ExternalInstance, f(x: A) matches f(x: B) if mro[A] contains the
\* instance id of B and yields False if it does not; for A = B it matches
\* whatever mro holds.
C13_RespectsMroForDistinctTags ==
    MatchedClassTags =>
        IF RuleTag = TypeTag
        THEN ret.value.result = MatchTrue
        ELSE IF MroContains(RuleTag, TypeTag)
        THEN ret.value.result = MatchTrue
        ELSE ret.value.result.res = "False"

\* C13 witness: f(x: Citrus) matched the rule type f(x: Fruit) through the
\* MRO of Citrus
C13_Witness ==
    /\ MatchedClassTags
    /\ RuleTag = "Citrus" /\ TypeTag = "Fruit"
    /\ MroContains("Citrus", "Fruit")
    /\ ret.value.result = MatchTrue

\* the last call matched f(x: D) against f(x: Resource) or f(x: Actor), D a
\* class tag whose MRO contains the instance id of a member of that union
MatchedSubclassOfMember ==
    /\ ret.op = "rule_params_match"
    /\ is_union(TypeTag) /\ ~is_union(RuleTag)
    /\ \E C \in get_union_members(resource_blocks, TypeTag) : MroContains(RuleTag, C)

\* C14 as stated: if C is a member of the union and mro[D] contains the
\* instance id of C, f(x: D) matches f(x: Resource) (resp. f(x: Actor)),
\* whatever other members the union has.
C14_UnionClosedUnderMro ==
    MatchedSubclassOfMember => ret.value.result = MatchTrue

\* C14 amended: if C is a member of the union and mro[D] contains the
\* instance id of C, f(x: D) matches f(x: Resource) (resp. f(x: Actor))
\* when D is itself a member or every member of the union is a registered
\* constant; when D is not a member and some member is not registered, the
\* attempt ends in the UnregisteredClass error.
C14_UnionClosedUnderMroOfRegisteredMembers ==
    MatchedSubclassOfMember =>
        LET members == get_union_members(resource_blocks, TypeTag) IN
        IF RuleTag \in members \/ \A m \in members : m \in DOMAIN constants
        THEN ret.value.result = MatchTrue
        ELSE /\ ret.value.result.res = "Err"
             /\ ret.value.result.kind = "UnregisteredClass"

\* C14 witness: Citrus is not declared as a resource, its MRO contains the
\* id of the resource Fruit, and f(x: Citrus) matched f(x: Resource)
C14_Witness ==
    /\ MatchedSubclassOfMember
    /\ RuleTag = "Citrus" /\ TypeTag = RESOURCE_UNION_NAME
    /\ "Citrus" \notin resource_blocks.resources
    /\ "Fruit" \in resource_blocks.resources
    /\ ret.value.result = MatchTrue

\* the last call matched f(x: D) against f(x: U), U a union and D another tag
MatchedAgainstUnion ==
    /\ ret.op = "rule_params_match"
    /\ is_union(TypeTag) /\ RuleTag # TypeTag

\* D is a class tag that is a member of the union of the last call, or whose
\* MRO contains the instance id of one of its members
MemberOrDescendant ==
    /\ ~is_union(RuleTag)
    /\ \/ RuleTag \in get_union_members(resource_blocks, TypeTag)
       \/ \E C \in get_union_members(resource_blocks, TypeTag) : MroContains(RuleTag, C)

\* the result of the last call is False with the message of NotAMember
SaysMustBeAMember ==
    /\ ret.value.result.res = "False"
    /\ ret.value.result.msg[1] = "Rule specializer "
    /\ ret.value.result.msg[2] = RuleTag
    /\ ret.value.result.msg[5] = " must be a member of rule type specializer "
    /\ ret.value.result.msg[6] = TypeTag

\* C24 as stated: f(x: D) matches the rule type f(x: U), D # U, only if D is
\* a class tag that is a member of U or a descendant of a member; the other
\* union does not match; and a class tag that is neither yields False with
\* the 'must be a member of rule type specializer' message.
C24_UnionMembersOnly ==
    MatchedAgainstUnion =>
        /\ ret.value.result = MatchTrue => MemberOrDescendant
        /\ is_union(RuleTag) => ret.value.result.res = "False"
        /\ (~is_union(RuleTag) /\ ~MemberOrDescendant) => SaysMustBeAMember

\* C24 amended: as stated, except that a class tag that is neither a member
\* nor a descendant of a member yields that message only when every member
\* of U is a registered constant; when some member is not, the attempt ends
\* in the UnregisteredClass error.  The other union yields False with the
\* 'does not match rule type specializer' message.
C24_UnionMembersOnlyWhenRegistered ==
    MatchedAgainstUnion =>
        /\ ret.value.result = MatchTrue => MemberOrDescendant
        /\ is_union(RuleTag) =>
              /\ ret.value.result.res = "False"
              /\ ret.value.result.msg[5] = " does not match rule type specializer "
        /\ (~is_union(RuleTag) /\ ~MemberOrDescendant) =>
              IF \A m \in get_union_members(resource_blocks, TypeTag) : m \in DOMAIN constants
              THEN SaysMustBeAMember
              ELSE /\ ret.value.result.res = "Err"
                   /\ ret.value.result.kind = "UnregisteredClass"

\* C24 witness: Citrus is a registered class with an MRO, it is neither a
\* resource nor a descendant of the registered resource Fruit, and
\* f(x: Citrus) against f(x: Resource) is False with the message
C24_Witness ==
    /\ MatchedAgainstUnion
    /\ RuleTag = "Citrus" /\ TypeTag = RESOURCE_UNION_NAME
    /\ "Citrus" \in DOMAIN mro
    /\ resource_blocks.resources = {"Fruit"}
    /\ "Fruit" \in DOMAIN constants
    /\ ~MemberOrDescendant
    /\ SaysMustBeAMember

----------------------------------------------------------------------------
(* Claims about specializer fields.                                        *)

\* every key of type_fields is a key of rule_fields with an equal value
FieldsIncluded(type_fields, rule_fields) ==
    /\ DOMAIN type_fields \subseteq DOMAIN rule_fields
    /\ \A k \in DOMAIN type_fields :
          /\ rule_fields[k].kind = type_fields[k].kind
          /\ rule_fields[k] = type_fields[k]

FieldInputs == <<EmptyMap, IdOne, IdTwo, IdOneNameDave>>

\* the kinds of specializer that carry fields
IsInstanceSpecialized(p) ==
    /\ p.specializer # None
    /\ p.specializer[1].kind = "Pattern" /\ p.specializer[1].pkind = "Instance"

IsDictionarySpecialized(p) ==
    /\ p.specializer # None
    /\ p.specializer[1].kind = "Pattern" /\ p.specializer[1].pkind = "Dictionary"

IsDictionaryValue(p) == p.specializer # None /\ p.specializer[1].kind = "Dictionary"

\* the tag under which a rule specializer is compared: its own, or
\* Dictionary for a dictionary value
ComparedTag(p) == IF IsDictionaryValue(p) THEN "Dictionary" ELSE p.specializer[1].tag

\* the comparison of the rule parameter rp with the rule-type parameter tp
\* comes down to the fields: same tag, member of the union (directly or
\* through its MRO, the members being registered), subclass, or dictionary
ReachesFieldCheck(rp, tp) ==
    \/ /\ IsInstanceSpecialized(tp)
       /\ IsInstanceSpecialized(rp) \/ IsDictionaryValue(rp)
       /\ LET rule_tag == ComparedTag(rp)
              type_tag == tp.specializer[1].tag
              members == get_union_members(resource_blocks, type_tag)
          IN  \/ rule_tag = type_tag
              \/ /\ is_union(type_tag) /\ ~is_union(rule_tag)
                 /\ \/ rule_tag \in members
                    \/ /\ \E C \in members : MroContains(rule_tag, C)
                       /\ \A m \in members : m \in DOMAIN constants
              \/ /\ ~is_union(type_tag) /\ rule_tag # type_tag
                 /\ MroContains(rule_tag, type_tag)
    \/ /\ IsInstanceSpecialized(tp) /\ tp.specializer[1].tag = "Dictionary"
       /\ IsDictionarySpecialized(rp)
    \/ /\ IsDictionarySpecialized(tp)
       /\ IsInstanceSpecialized(rp) \/ IsDictionarySpecialized(rp) \/ IsDictionaryValue(rp)
    \/ IsDictionaryValue(tp) /\ IsDictionaryValue(rp)

\* C15: param_fields_match(type_fields, rule_fields) is True exactly when
\* every key of type_fields is a key of rule_fields with an equal value
\* (extra rule fields match, a missing or different one does not), and a
\* match attempt whose specializer comparison reaches the field check (same
\* tag, union member, subclass, dictionary) is True exactly when the fields
\* of the rule type are included in those of the rule.
C15_FieldsIncluded ==
    /\ \A a, b \in 1 .. Len(FieldInputs) :
          param_fields_match(FieldInputs[a], FieldInputs[b])
             <=> FieldsIncluded(FieldInputs[a], FieldInputs[b])
    /\ ret.op = "rule_params_match" =>
          LET rp == ShapeParams[ret.value.rule]
              tp == ShapeParams[ret.value.rule_type]
          IN  ReachesFieldCheck(rp, tp) =>
                 /\ ret.value.result.res \in {"True", "False"}
                 /\ ret.value.result = MatchTrue
                       <=> FieldsIncluded(tp.specializer[1].fields, rp.specializer[1].fields)

\* C15 witness: f(x: Citrus{id: 1, name: "Dave"}) matched the rule type
\* f(x: Resource{id: 1}) through the resource Fruit, with an extra field
C15_Witness ==
    /\ ret.op = "rule_params_match"
    /\ ret.value.rule = 8 /\ ret.value.rule_type = 9
    /\ ReachesFieldCheck(ShapeParams[8], ShapeParams[9])
    /\ ret.value.result = MatchTrue

----------------------------------------------------------------------------
(* The shape validator over rules and rule types with list parameters.     *)

OneTwo == List(<<Integer(1), Integer(2)>>)
OneTwoThree == List(<<Integer(1), Integer(2), Integer(3)>>)
OneRest == List(<<Integer(1), RestVariable("rest")>>)

\* rules given to add_rule: f([1, 2]), f(x: [1, 2, 3]), f(1) and f(x)
ListRuleInputs ==
    <<Rule("f", <<ValueParam(OneTwo)>>, FALSE),
      Rule("f", <<ValueSpecialized(OneTwoThree)>>, FALSE),
      Rule("f", <<ValueParam(Integer(1))>>, FALSE),
      Rule("f", <<Unspecialized>>, FALSE)>>

\* rule types given to add_rule_type: f([1, *rest]), f(x: [1, *rest]) and
\* f(x: [1, 2])
ListRuleTypeInputs ==
    <<Rule("f", <<ValueParam(OneRest)>>, FALSE),
      Rule("f", <<ValueSpecialized(OneRest)>>, FALSE),
      Rule("f", <<ValueSpecialized(OneTwo)>>, FALSE)>>

AddListRule == \E i \in 1 .. Len(ListRuleInputs) : add_rule(ListRuleInputs[i])

AddListRuleType ==
    \E i \in 1 .. Len(ListRuleTypeInputs) : add_rule_type(ListRuleTypeInputs[i])

NextLists == AddListRule \/ AddListRuleType \/ ValidateRules \/ ClearRules

SpecLists == Init /\ [][NextLists]_vars

----------------------------------------------------------------------------
(* Claims about *rest variables in rule types.                             *)

\* the positions of the rule type whose list, as a parameter or as a
\* specializer, contains a *rest variable
RestPositions(rule_type) ==
    {k \in 1 .. Len(rule_type.params) :
        \/ ContainsRest(rule_type.params[k].parameter)
        \/ /\ rule_type.params[k].specializer # None
           /\ ContainsRest(rule_type.params[k].specializer[1])}

\* the rule parameter rp is compared as a list with the list of the
\* rule-type parameter tp: a list specializer of the rule type meets a list
\* specializer or a list parameter, a list parameter meets a list parameter
ComparedAsLists(rp, tp) ==
    IF tp.specializer # None
    THEN \/ rp.specializer # None /\ rp.specializer[1].kind = "List"
         \/ rp.specializer = None /\ rp.parameter.kind = "List"
    ELSE rp.specializer = None /\ rp.parameter.kind = "List"

\* the stored pairs of a rule and a rule type of one name whose rule type
\* has a list with a *rest variable, as <<name, i, j>>: the i-th rule and
\* the j-th rule type of the name
RestPairs ==
    UNION {{<<name, i, j>> :
               i \in 1 .. Len(rules[name]),
               j \in {j \in 1 .. Len(rule_types.types[name]) :
                         RestPositions(rule_types.types[name][j]) # {}}} :
           name \in (DOMAIN rules) \cap (DOMAIN rule_types.types)}

RuleOf(p) == rules[p[1]][p[2]]
RuleTypeOf(p) == rule_types.types[p[1]][p[3]]

IsRestError(d) ==
    /\ d.res = "Err" /\ d.kind = "InvalidRuleType"
    /\ d.msg = <<"Rule types cannot contain *rest variables.">>
    /\ RestPositions(d.rule) # {}

MeetsRestList(rule, rule_type) ==
    /\ Len(rule.params) = Len(rule_type.params)
    /\ \E k \in RestPositions(rule_type) :
          ComparedAsLists(rule.params[k], rule_type.params[k])

----------------------------------------------------------------------------
(* Claims about list values.                                               *)

\* the value of a parameter: its specializer, or the parameter itself
ValueOf(p) == IF p.specializer # None THEN p.specializer[1] ELSE p.parameter

IsPlainList(v) == v.kind = "List" /\ ~ContainsRest(v)

\* every element of the list type_list occurs somewhere in rule_list
ElementsOccurIn(type_list, rule_list) ==
    \A i \in 1 .. Len(type_list.elems) :
        \E j \in 1 .. Len(rule_list.elems) :
            /\ rule_list.elems[j].kind = type_list.elems[i].kind
            /\ rule_list.elems[j] = type_list.elems[i]

\* the last call compared a rule list with a rule-type list, neither with
\* a *rest variable
MatchedLists ==
    /\ ret.op = "rule_params_match"
    /\ IsPlainList(ValueOf(ShapeParams[ret.value.rule]))
    /\ IsPlainList(ValueOf(ShapeParams[ret.value.rule_type]))
    /\ ComparedAsLists(ShapeParams[ret.value.rule], ShapeParams[ret.value.rule_type])

\* C17: for lists without *rest variables, the rule list matches the
\* rule-type list exactly when every element of the rule-type list occurs
\* somewhere in the rule list, whatever the order, the positions and the
\* multiplicities; a rule list lacking an element of the type list yields
\* False.
C17_ListElementsOccur ==
    MatchedLists =>
        IF ElementsOccurIn(ValueOf(ShapeParams[ret.value.rule_type]),
                           ValueOf(ShapeParams[ret.value.rule]))
        THEN ret.value.result = MatchTrue
        ELSE ret.value.result.res = "False"

\* C17 witness: f(x: [2, 1]) matched the rule type f(x: [1, 1, 2]), whose
\* list is longer and in another order
C17_Witness ==
    /\ MatchedLists
    /\ ret.value.rule = 15 /\ ret.value.rule_type = 16
    /\ ret.value.result = MatchTrue

----------------------------------------------------------------------------
(* Resource-block elaborator.                                              *)
(*                                                                         *)
(* A resource block declares names (roles, permissions, relations) and     *)
(* holds shorthand rules.  `declarations` maps a resource to the map of    *)
(* its declared names; `shorthand_rules` maps a resource to the sequence   *)
(* of its shorthand rules.                                                 *)

\* shorthand rules held by the resource blocks, over all resources
MaxShorthandRules == 2

\* Declaration::Role, Declaration::Permission, Declaration::Relation(type)
Role == [kind |-> "Role", type |-> ""]
Permission == [kind |-> "Permission", type |-> ""]
Relation(type) == [kind |-> "Relation", type |-> type]

\* ShorthandRule { head, body: (implier, Option<(keyword, relation)>) }
ShorthandRule(head, implier, on) == [head |-> head, body |-> <<implier, on>>]

\* every sequence that lists the elements of S once (the iteration orders
\* of a HashMap or HashSet holding S)
Orderings(S) ==
    {o \in [1 .. Cardinality(S) -> S] : \A i, j \in DOMAIN o : o[i] = o[j] => i = j}

RECURSIVE Flatten(_)
\* the concatenation of a sequence of sequences
Flatten(seqs) == IF seqs = << >> THEN << >> ELSE Head(seqs) \o Flatten(Tail(seqs))

\* ResourceBlocks::get_declaration_in_resource_block: Some(declaration) or None
get_declaration_in_resource_block(rb, name, resource) ==
    IF resource \in DOMAIN rb.declarations /\ name \in DOMAIN rb.declarations[resource]
    THEN Some(rb.declarations[resource][name])
    ELSE None

\* ResourceBlocks::get_relation_type_in_resource_block: Some(type) when the
\* name is declared as a relation of the resource, None (an error) otherwise
get_relation_type_in_resource_block(rb, relation, resource) ==
    LET declaration == get_declaration_in_resource_block(rb, relation, resource) IN
    IF declaration # None /\ declaration[1].kind = "Relation"
    THEN Some(declaration[1].type)
    ELSE None

\* ResourceBlocks::relation_tuples: (type, relation name, resource) of every
\* declared relation
relation_tuples(rb) ==
    UNION {{<<rb.declarations[resource][name].type, name, resource>> :
              name \in {n \in DOMAIN rb.declarations[resource] :
                          rb.declarations[resource][n].kind = "Relation"}} :
           resource \in DOMAIN rb.declarations}

\* ResourceBlocks::has_roles
has_roles(rb) ==
    \E resource \in DOMAIN rb.declarations :
        \E name \in DOMAIN rb.declarations[resource] :
            rb.declarations[resource][name].kind = "Role"

\* the number of shorthand rules, over all resources
ShorthandRuleCount(rb) ==
    Cardinality({p \in (DOMAIN rb.shorthand_rules) \X (1 .. MaxShorthandRules + 1) :
                   p[2] <= Len(rb.shorthand_rules[p[1]])})

\* the name of the rule a declaration compiles to
rule_name_for_declaration(declaration) ==
    CASE declaration.kind = "Role" -> "has_role"
      [] declaration.kind = "Permission" -> "has_permission"
      [] OTHER -> "has_relation"

CompileError == [res |-> "Err", kind |-> "ResourceBlock", msg |-> << >>, rule |-> NoRule]

\* ShorthandRule::as_rule: Ok(rule) when the head is declared in the
\* resource and the body resolves (the implier is declared in the resource,
\* or, with `on relation`, the relation is a relation of the resource and
\* the implier is declared in the related resource); an error otherwise
as_rule(shorthand_rule, resource_name, rb) ==
    LET head == get_declaration_in_resource_block(rb, shorthand_rule.head, resource_name)
        implier == shorthand_rule.body[1]
        on == shorthand_rule.body[2]
        related == IF on = None THEN Some(resource_name)
                   ELSE get_relation_type_in_resource_block(rb, on[1][2], resource_name)
        body_ok == /\ related # None
                   /\ get_declaration_in_resource_block(rb, implier, related[1]) # None
    IN  IF head # None /\ body_ok
        THEN [res |-> "Ok",
              rule |-> Rule(rule_name_for_declaration(head[1]),
                            <<Parameter(Variable("actor"),
                                        Some(PatternInstance(instance(ACTOR_UNION_NAME)))),
                              Parameter(String(shorthand_rule.head), None),
                              Parameter(Variable("resource"),
                                        Some(PatternInstance(instance(resource_name))))>>,
                            FALSE)]
        ELSE [res |-> "Err", rule |-> NoRule]

\* the parser declaring a name in the block of a resource
declare(resource, name, declaration) ==
    /\ resource_blocks' =
          [resource_blocks EXCEPT
             !.resources = @ \cup {resource},
             !.declarations =
                 MapInsert(@, resource,
                           MapInsert(IF resource \in DOMAIN @ THEN @[resource] ELSE EmptyMap,
                                     name, declaration))]
    /\ ret' = Ok("declare", None)
    /\ UNCHANGED <<constants, mro, loaded_files, loaded_content, rules,
                   rule_types, sources, gensym_counter, id_counter,
                   inline_queries, issued>>

\* the parser adding a shorthand rule to the block of a resource
add_shorthand_rule(resource, shorthand_rule) ==
    /\ ShorthandRuleCount(resource_blocks) < MaxShorthandRules
    /\ resource_blocks' =
          [resource_blocks EXCEPT
             !.resources = @ \cup {resource},
             !.shorthand_rules =
                 MapInsert(@, resource,
                           IF resource \in DOMAIN @
                           THEN Append(@[resource], shorthand_rule)
                           ELSE <<shorthand_rule>>)]
    /\ ret' = Ok("add_shorthand_rule", None)
    /\ UNCHANGED <<constants, mro, loaded_files, loaded_content, rules,
                   rule_types, sources, gensym_counter, id_counter,
                   inline_queries, issued>>

\* KnowledgeBase::check_that_resource_block_relations_are_registered: the
\* relation types that are not registered, one error per relation
check_that_resource_block_relations_are_registered(kb) ==
    {t \in relation_tuples(kb.resource_blocks) :
       get_registered_class(kb.constants, t[1]) = None}

UnregisteredClass(tuple) ==
    [res |-> "Err", kind |-> "UnregisteredClass", msg |-> <<tuple[1]>>, rule |-> NoRule]

RECURSIVE AddRules(_, _)
\* `for rule in rules { self.add_rule(rule) }`
AddRules(rs, new_rules) ==
    IF new_rules = << >> THEN rs
    ELSE AddRules(RulesInsert(rs, Head(new_rules)), Tail(new_rules))

\* the (resource, shorthand rule) pairs in the order the two loops visit them
ShorthandPairs(rb, order) ==
    Flatten([i \in 1 .. Len(order) |->
               [k \in 1 .. Len(rb.shorthand_rules[order[i]]) |->
                  <<order[i], rb.shorthand_rules[order[i]][k]>>]])

\* the rewritten rules committed whatever the errors are
commit_rewritten_rules_despite_errors(rs, new_rules, errors) == AddRules(rs, new_rules)

\* `if errors.is_empty() { for rule in rules { self.add_rule(rule) } }`
commit_rewritten_rules(rs, new_rules, errors) ==
    IF errors = << >> THEN AddRules(rs, new_rules) ELSE rs

\* KnowledgeBase::rewrite_shorthand_rules
rewrite_shorthand_rules ==
    \E order \in Orderings(DOMAIN resource_blocks.shorthand_rules),
       unregistered \in Orderings(check_that_resource_block_relations_are_registered(KB)) :
        LET pairs == ShorthandPairs(resource_blocks, order)
            compiled == [i \in 1 .. Len(pairs) |->
                           as_rule(pairs[i][2], pairs[i][1], resource_blocks)]
            new_rules == [i \in 1 .. Len(SelectSeq(compiled, LAMBDA c : c.res = "Ok")) |->
                            SelectSeq(compiled, LAMBDA c : c.res = "Ok")[i].rule]
            errors == [i \in 1 .. Len(unregistered) |-> UnregisteredClass(unregistered[i])]
                      \o [i \in 1 .. Len(SelectSeq(compiled, LAMBDA c : c.res = "Err")) |->
                            CompileError]
        IN  /\ rules' = commit_rewritten_rules(rules, new_rules, errors)
            /\ RuleCount(rules') <= MaxRules
            /\ ret' = Ok("rewrite_shorthand_rules", errors)
            /\ UNCHANGED <<constants, mro, loaded_files, loaded_content, rule_types,
                           sources, gensym_counter, id_counter, inline_queries,
                           resource_blocks, issued>>

\* the (subject, relation, object) tuples the shorthand rules mark required
RequiredTuples(rb) ==
    UNION {UNION {LET implier == rb.shorthand_rules[object][k].body[1]
                      on == rb.shorthand_rules[object][k].body[2]
                  IN  IF on # None
                      THEN LET relation == on[1][2]
                               subject == get_relation_type_in_resource_block(rb, relation, object)
                           IN  IF subject # None
                               THEN {<<subject[1], relation, object>>} \cup
                                    (LET related_subject ==
                                           get_relation_type_in_resource_block(rb, implier, subject[1])
                                     IN  IF related_subject # None
                                         THEN {<<related_subject[1], implier, subject[1]>>}
                                         ELSE {})
                               ELSE {}
                      ELSE LET subject == get_relation_type_in_resource_block(rb, implier, object)
                           IN  IF subject # None THEN {<<subject[1], implier, object>>} ELSE {} :
                  k \in 1 .. Len(rb.shorthand_rules[object])} :
           object \in DOMAIN rb.shorthand_rules}

\* rule_types_to_create: the keys of the map, and the flag of a key
RuleTypesToCreate(rb) == relation_tuples(rb) \cup RequiredTuples(rb)

\* type has_relation(subject: Subject, "relation", object: Object)
HasRelationRuleType(tuple, required) ==
    Rule("has_relation",
         <<Parameter(Variable("subject"), Some(PatternInstance(instance(tuple[1])))),
           Parameter(String(tuple[2]), None),
           Parameter(Variable("object"), Some(PatternInstance(instance(tuple[3]))))>>,
         required)

\* the has_role rule type without its `required` flag
HasRoleRuleTypeNotRequired ==
    Rule("has_role",
         <<Parameter(Variable("actor"), Some(PatternInstance(instance(ACTOR_UNION_NAME)))),
           Parameter(Variable("role"), Some(PatternInstance(instance("String")))),
           Parameter(Variable("resource"), Some(PatternInstance(instance(RESOURCE_UNION_NAME))))>>,
         FALSE)

\* type has_role(actor: Actor, role: String, resource: Resource), required
HasRoleRuleType ==
    Rule("has_role",
         <<Parameter(Variable("actor"), Some(PatternInstance(instance(ACTOR_UNION_NAME)))),
           Parameter(Variable("role"), Some(PatternInstance(instance("String")))),
           Parameter(Variable("resource"), Some(PatternInstance(instance(RESOURCE_UNION_NAME))))>>,
         TRUE)

RECURSIVE AddRuleTypes(_, _)
\* `for rule_type in rule_types { self.add_rule_type(rule_type.clone()) }`
AddRuleTypes(rt, new_rule_types) ==
    IF new_rule_types = << >> THEN rt
    ELSE AddRuleTypes(RuleTypesAdd(rt, Head(new_rule_types)), Tail(new_rule_types))

\* the rule types of one run with the declared relations seeded after the
\* shorthand rules were visited: a declared tuple ends up non-required
ResourceSpecificRuleTypesSeededLast(rb, order) ==
    [i \in 1 .. Len(order) |->
       HasRelationRuleType(order[i], order[i] \in RequiredTuples(rb) \ relation_tuples(rb))]
    \o (IF has_roles(rb) THEN <<HasRoleRuleType>> ELSE << >>)

\* the rule types of one run without the has_role rule type
ResourceSpecificRuleTypesWithoutRoles(rb, order) ==
    [i \in 1 .. Len(order) |-> HasRelationRuleType(order[i], order[i] \in RequiredTuples(rb))]

\* the rule types of one run, in the iteration order `order` of the map
ResourceSpecificRuleTypes(rb, order) ==
    [i \in 1 .. Len(order) |-> HasRelationRuleType(order[i], order[i] \in RequiredTuples(rb))]
    \o (IF has_roles(rb) THEN <<HasRoleRuleType>> ELSE << >>)

\* KnowledgeBase::create_resource_specific_rule_types
create_resource_specific_rule_types ==
    \E order \in Orderings(RuleTypesToCreate(resource_blocks)) :
        LET new_rule_types == ResourceSpecificRuleTypes(resource_blocks, order) IN
        /\ RuleTypeCount(rule_types) + Len(new_rule_types) <= MaxRuleTypes
        /\ rule_types' = AddRuleTypes(rule_types, new_rule_types)
        /\ ret' = Ok("create_resource_specific_rule_types", None)
        /\ UNCHANGED <<constants, mro, loaded_files, loaded_content, rules,
                       sources, gensym_counter, id_counter, inline_queries,
                       resource_blocks, issued>>

----------------------------------------------------------------------------
(* The elaborator over one resource block, `resource Repo { ... }`, with   *)
(* the classes User and Repo registered by the host or not.                *)

\* classes registered by the host
BlockClassInputs == {<<"User", ExternalInstance(1)>>, <<"Repo", ExternalInstance(2)>>}

\* roles = ["writer"]; relations = { owner: User, parent: Repo };
DeclarationInputs ==
    {<<"Repo", "writer", Role>>, <<"Repo", "owner", Relation("User")>>,
     <<"Repo", "parent", Relation("Repo")>>}

\* "writer" if "owner";  "writer" if "writer" on "parent";
\* (a shorthand rule fails to compile while a name it uses is undeclared)
ShorthandRuleInputs ==
    {<<"Repo", ShorthandRule("writer", "owner", None)>>,
     <<"Repo", ShorthandRule("writer", "writer", Some(<<"on", "parent">>))>>}

\* a has_role rule written in the policy, of another shape than the rule
\* type has_role(actor: Actor, role: String, resource: Resource)
BlockRuleInputs == {Rule("has_role", <<Unspecialized>>, FALSE)}

RegisterBlockClass == \E c \in BlockClassInputs : register_constant(c[1], c[2])

Declare == \E d \in DeclarationInputs : declare(d[1], d[2], d[3])

AddShorthandRule == \E r \in ShorthandRuleInputs : add_shorthand_rule(r[1], r[2])

AddBlockRule == \E rule \in BlockRuleInputs : add_rule(rule)

RewriteShorthandRules == rewrite_shorthand_rules

CreateResourceSpecificRuleTypes == create_resource_specific_rule_types

NextBlocks ==
    \/ RegisterBlockClass \/ Declare \/ AddShorthandRule \/ AddBlockRule
    \/ RewriteShorthandRules \/ CreateResourceSpecificRuleTypes
    \/ ValidateRules \/ ClearRules

SpecBlocks == Init /\ [][NextBlocks]_vars

----------------------------------------------------------------------------
(* Claims about rewrite_shorthand_rules.                                   *)

\* the rules of a name, none when the name has no rule
RulesOf(rs, name) == IF name \in DOMAIN rs THEN rs[name] ELSE << >>

\* rs2 holds the rules of rs, in their order, and new ones after them
ExtendsRules(rs, rs2) ==
    /\ DOMAIN rs \subseteq DOMAIN rs2
    /\ \A name \in DOMAIN rs :
          /\ Len(rs[name]) <= Len(rs2[name])
          /\ SubSeq(rs2[name], 1, Len(rs[name])) = rs[name]

\* the rule is the rewriting of a shorthand rule of the resource blocks:
\* its second parameter is the head, its third the resource
RewritesAShorthandRule(rb, rule) ==
    \E resource \in DOMAIN rb.shorthand_rules :
        \E k \in 1 .. Len(rb.shorthand_rules[resource]) :
            /\ Len(rule.params) = 3
            /\ rule.params[2].parameter = String(rb.shorthand_rules[resource][k].head)
            /\ rule.params[3].specializer # None
            /\ rule.params[3].specializer[1].tag = resource

\* some declared relation has a type that is not a registered constant
SomeRelationUnregistered ==
    \E resource \in DOMAIN resource_blocks.declarations :
        \E name \in DOMAIN resource_blocks.declarations[resource] :
            /\ resource_blocks.declarations[resource][name].kind = "Relation"
            /\ resource_blocks.declarations[resource][name].type \notin DOMAIN constants

\* some shorthand rule does not compile
SomeShorthandRuleFails ==
    \E resource \in DOMAIN resource_blocks.shorthand_rules :
        \E k \in 1 .. Len(resource_blocks.shorthand_rules[resource]) :
            as_rule(resource_blocks.shorthand_rules[resource][k], resource,
                    resource_blocks).res = "Err"

\* C18: rewrite_shorthand_rules changes the rule store only on success.  It
\* returns a non-empty error list exactly when a declared relation has an
\* unregistered type or a shorthand rule fails to compile, and then the rule
\* store is unchanged; when it returns an empty list, the rule store holds
\* its old rules and, after them, one new rule per shorthand rule, each the
\* rewriting of a shorthand rule.
C18_MutatesOnlyOnSuccess ==
    [][ret'.op = "rewrite_shorthand_rules" =>
          /\ (ret'.value # << >>) <=> (SomeRelationUnregistered \/ SomeShorthandRuleFails)
          /\ ret'.value # << >> => rules' = rules
          /\ ret'.value = << >> =>
                /\ ExtendsRules(rules, rules')
                /\ RuleCount(rules') = RuleCount(rules) + ShorthandRuleCount(resource_blocks)
                /\ \A name \in DOMAIN rules' :
                      \A i \in Len(RulesOf(rules, name)) + 1 .. Len(rules'[name]) :
                          RewritesAShorthandRule(resource_blocks, rules'[name][i])]_vars

\* C18 witness: rewrite_shorthand_rules has returned an unregistered class
\* and a compile error, on a rule store that holds a rule
C18_Witness ==
    /\ ret.op = "rewrite_shorthand_rules"
    /\ \E i, j \in 1 .. Len(ret.value) :
          /\ ret.value[i].kind = "UnregisteredClass"
          /\ ret.value[j].kind = "ResourceBlock"
    /\ RuleCount(rules) > 0

----------------------------------------------------------------------------
(* Claims about running the two passes again.                              *)

\* the last call was `op`, and this step is another call of `op`
RunsAgain(op) == ret.op = op /\ ret'.op = op

\* the rule types of a name, none when the name has no rule type
TypesOf2(rt, name) == IF name \in DOMAIN rt.types THEN rt.types[name] ELSE << >>

\* the elements of a sequence from position `from` on
Suffix(seq, from) == {seq[i] : i \in {k \in 1 .. Len(seq) : k >= from}}

----------------------------------------------------------------------------
(* Claims about elaboration and validation.                                *)

\* the has_role rule type is in the required set
HasRoleRequired(rt) == HasRoleRuleType \in rt.required

\* the diagnostics say that the has_role rule type has no implementation
ReportsMissingHasRole(diagnostics) ==
    \E i \in 1 .. Len(diagnostics) :
        /\ diagnostics[i].kind = "MissingRequiredRule"
        /\ diagnostics[i].rule = HasRoleRuleType

\* C20: a run of create_resource_specific_rule_types on resource blocks
\* that declare a role leaves has_role(actor: Actor, role: String,
\* resource: Resource) in the rule-type list of has_role and in the
\* required set; only such a run puts it there and clear_rules removes it.
\* While it is required, validate_rules returns a rule-type diagnostic
\* unless some loaded has_role rule matches it, and never reports it
\* missing when one matches; while it is not required (no such run yet, or
\* clear_rules since), validate_rules does not report it missing.
C20_ElaborationBeforeValidation ==
    [][/\ (ret'.op = "create_resource_specific_rule_types" /\ has_roles(resource_blocks)) =>
             /\ HasRoleRequired(rule_types')
             /\ "has_role" \in DOMAIN rule_types'.types
             /\ \E i \in 1 .. Len(rule_types'.types["has_role"]) :
                   rule_types'.types["has_role"][i] = HasRoleRuleType
       /\ (HasRoleRequired(rule_types') /\ ~HasRoleRequired(rule_types)) =>
             /\ ret'.op = "create_resource_specific_rule_types"
             /\ has_roles(resource_blocks)
       /\ ret'.op = "clear_rules" => ~HasRoleRequired(rule_types')
       /\ ret'.op = "validate_rules" =>
             LET diagnostics == SelectSeq(ret'.value, LAMBDA d : d.kind # "UndefinedRuleCall")
             IN  /\ (HasRoleRequired(rule_types) /\ Uncovered(HasRoleRuleType)) =>
                        diagnostics # << >>
                 /\ (HasRoleRequired(rule_types) /\ ~Uncovered(HasRoleRuleType)) =>
                        ~ReportsMissingHasRole(diagnostics)
                 /\ ~HasRoleRequired(rule_types) => ~ReportsMissingHasRole(diagnostics)]_vars

\* C20 witness: after the pass has made has_role required, validate_rules
\* reports it missing while the resource blocks declare a role and no
\* has_role rule is loaded
C20_Witness ==
    /\ ret.op = "validate_rules"
    /\ has_roles(resource_blocks)
    /\ HasRoleRequired(rule_types)
    /\ "has_role" \notin DOMAIN rules
    /\ ReportsMissingHasRole(ret.value)

----------------------------------------------------------------------------
(* The rule types of two resource blocks, `resource Repo { ... }` and      *)
(* `resource Org { ... }`, with relations between them.                    *)

\* Repo: roles = ["writer"]; relations = { parent: Org, owner: User };
\* Org: relations = { owner: User };
RelationDeclarationInputs ==
    {<<"Repo", "writer", Role>>, <<"Repo", "parent", Relation("Org")>>,
     <<"Repo", "owner", Relation("User")>>, <<"Org", "owner", Relation("User")>>}

\* in Repo: "writer" if "owner" on "parent"; "writer" if "writer" on "parent";
\* "writer" if "owner";
RelationShorthandInputs ==
    {<<"Repo", ShorthandRule("writer", "owner", Some(<<"on", "parent">>))>>,
     <<"Repo", ShorthandRule("writer", "writer", Some(<<"on", "parent">>))>>,
     <<"Repo", ShorthandRule("writer", "owner", None)>>}

DeclareRelation == \E d \in RelationDeclarationInputs : declare(d[1], d[2], d[3])

AddRelationShorthandRule == \E r \in RelationShorthandInputs : add_shorthand_rule(r[1], r[2])

NextRelations ==
    \/ DeclareRelation \/ AddRelationShorthandRule
    \/ CreateResourceSpecificRuleTypes \/ ClearRules

SpecRelations == Init /\ [][NextRelations]_vars

----------------------------------------------------------------------------
(* Claims about create_resource_specific_rule_types.                       *)

\* the name is declared as a relation of the resource, with this type
DeclaredRelation(rb, type, name, resource) ==
    /\ resource \in DOMAIN rb.declarations
    /\ name \in DOMAIN rb.declarations[resource]
    /\ rb.declarations[resource][name] = Relation(type)

\* the (subject, relation, object) tuples of the declared relations
DeclaredTuples(rb) ==
    {t \in {"User", "Org", "Repo"} \X {"writer", "owner", "parent"} \X {"Org", "Repo"} :
       DeclaredRelation(rb, t[1], t[2], t[3])}

\* some shorthand rule traverses the tuple: `X if Y on R` in block O with
\* the tuple (type of R in O, R, O), or with the tuple (type of Y, Y,
\* subject) where subject is the type of R in O; or `X if Y` in block O
\* with the tuple (type of Y in O, Y, O)
Traversed(rb, t) ==
    \E O \in DOMAIN rb.shorthand_rules :
        \E k \in 1 .. Len(rb.shorthand_rules[O]) :
            LET Y == rb.shorthand_rules[O][k].body[1]
                on == rb.shorthand_rules[O][k].body[2]
            IN  IF on = None
                THEN t[2] = Y /\ t[3] = O /\ DeclaredRelation(rb, t[1], Y, O)
                ELSE LET R == on[1][2] IN
                     \/ t[2] = R /\ t[3] = O /\ DeclaredRelation(rb, t[1], R, O)
                     \/ /\ t[2] = Y
                        /\ DeclaredRelation(rb, t[3], R, O)
                        /\ DeclaredRelation(rb, t[1], Y, t[3])

\* the has_relation rule types a step has appended
AddedHasRelation ==
    Suffix(TypesOf2(rule_types', "has_relation"),
           Len(TypesOf2(rule_types, "has_relation")) + 1)

\* C21: one run of create_resource_specific_rule_types appends exactly one
\* has_relation rule type per declared (subject, relation, object) tuple:
\* has_relation(subject: Subject, "relation", object: Object), required if
\* and only if some shorthand rule traverses the tuple, and non-required
\* for every other declared tuple.
C21_OneRuleTypePerTuple ==
    [][ret'.op = "create_resource_specific_rule_types" =>
          /\ Len(TypesOf2(rule_types', "has_relation")) =
                Len(TypesOf2(rule_types, "has_relation"))
                + Cardinality(DeclaredTuples(resource_blocks))
          /\ AddedHasRelation =
                {HasRelationRuleType(t, Traversed(resource_blocks, t)) :
                   t \in DeclaredTuples(resource_blocks)}
          /\ \A rule_type \in AddedHasRelation :
                rule_type.required <=> rule_type \in rule_types'.required]_vars

\* C21 witness: `"writer" if "owner" on "parent"` in Repo, with parent: Org
\* declared in Repo and owner: User declared in Org, has made both
\* has_relation(Org, "parent", Repo) and has_relation(User, "owner", Org)
\* required
C21_Witness ==
    /\ ret.op = "create_resource_specific_rule_types"
    /\ HasRelationRuleType(<<"Org", "parent", "Repo">>, TRUE) \in rule_types.required
    /\ HasRelationRuleType(<<"User", "owner", "Org">>, TRUE) \in rule_types.required

----------------------------------------------------------------------------
(* The matcher over rules of one and two parameters.                       *)

\* the parameters the rules are built from: Orange is not registered
ArityParams ==
    <<Unspecialized, Specialized("Fruit"), Specialized("Citrus"),
      Specialized("Orange"), ValueParam(Integer(1))>>

\* the rules f(p) and f(p, q), numbered: first the rules of one parameter
ArityRuleCount == Len(ArityParams) + Len(ArityParams) * Len(ArityParams)

ArityRule(i) ==
    IF i <= Len(ArityParams)
    THEN Rule("f", <<ArityParams[i]>>, FALSE)
    ELSE Rule("f", <<ArityParams[((i - Len(ArityParams) - 1) \div Len(ArityParams)) + 1],
                     ArityParams[((i - Len(ArityParams) - 1) % Len(ArityParams)) + 1]>>,
              FALSE)

MatchArity ==
    \E i, j \in 1 .. ArityRuleCount :
        call_rule_params_match(ArityRule(i), ArityRule(j), i, j)

NextArity == MatchArity \/ DeclareBlock \/ ClearRules

SpecArity == InitShapes /\ [][NextArity]_vars

----------------------------------------------------------------------------
(* Claims about one match attempt.                                         *)

\* the results of the check of parameter i in the last call
ParamCheck(i) ==
    LET rule == ArityRule(ret.value.rule)
        rule_type == ArityRule(ret.value.rule_type)
    IN  check_param(KB, i, rule.params[i], rule, rule_type.params[i], rule_type)

\* C22: a match attempt on rules with different numbers of parameters is
\* False, with the message naming both numbers, whatever the parameters
\* are; otherwise the attempt is True if and only if every parameter check
\* is True, and when it is False its message is the message of the
\* lowest-index parameter whose check is False.
C22_FirstFailingParameter ==
    ret.op = "rule_params_match" =>
        LET rule == ArityRule(ret.value.rule)
            rule_type == ArityRule(ret.value.rule_type)
            result == ret.value.result
        IN  IF Len(rule.params) # Len(rule_type.params)
            THEN /\ result.res = "False"
                 /\ result.msg[1] = "Different number of parameters. Rule has "
                 /\ result.msg[2] = ToString(Len(rule.params))
                 /\ result.msg[4] = ToString(Len(rule_type.params))
            ELSE /\ result.res = "True" <=>
                       \A i \in 1 .. Len(rule.params) : ParamCheck(i) = {MatchTrue}
                 /\ result.res = "False" =>
                       \E i \in 1 .. Len(rule.params) :
                           /\ ParamCheck(i) = {result}
                           /\ \A k \in 1 .. i - 1 : ParamCheck(k) = {MatchTrue}

\* C22 witness: both parameters of a rule fail, with different messages,
\* and the attempt is False with the message of the first
C22_Witness ==
    /\ ret.op = "rule_params_match"
    /\ Len(ArityRule(ret.value.rule).params) = 2
    /\ Len(ArityRule(ret.value.rule_type).params) = 2
    /\ ret.value.result.res = "False"
    /\ ParamCheck(1) = {ret.value.result}
    /\ \E m \in ParamCheck(2) : m.res = "False" /\ m.msg # ret.value.result.msg

----------------------------------------------------------------------------
(* validate_rules on a rule f(x: Citrus) and a rule type f(x: Fruit),      *)
(* while the host registers Fruit (as a class or as a string) and Citrus   *)
(* (with an MRO that lists Fruit or not).                                  *)

SubclassConstantInputs ==
    {<<"Fruit", ExternalInstance(1)>>, <<"Fruit", String("not an external instance")>>,
     <<"Citrus", ExternalInstance(2)>>}

SubclassMroInputs == {<<"Citrus", <<2, 1>> >>, <<"Citrus", <<2>> >>}

SubclassRuleInputs ==
    {Rule("f", <<Specialized("Citrus")>>, FALSE),
     Rule("f", <<SpecializedWithFields("Citrus", IdOne)>>, FALSE)}

SubclassRuleTypeInputs ==
    {Rule("f", <<Specialized("Fruit")>>, FALSE),
     Rule("f", <<SpecializedWithFields("Fruit", IdOne)>>, FALSE)}

RegisterSubclassConstant == \E c \in SubclassConstantInputs : register_constant(c[1], c[2])

AddSubclassMro == \E m \in SubclassMroInputs : add_mro(m[1], m[2])

AddSubclassRule == \E rule \in SubclassRuleInputs : add_rule(rule)

AddSubclassRuleType == \E rule_type \in SubclassRuleTypeInputs : add_rule_type(rule_type)

NextSubclass ==
    \/ RegisterSubclassConstant \/ AddSubclassMro
    \/ AddSubclassRule \/ AddSubclassRuleType
    \/ ValidateRules \/ ClearRules

SpecSubclass == Init /\ [][NextSubclass]_vars

----------------------------------------------------------------------------
(* Claims about the subclass check.                                        *)

\* the rule store holds one rule and the rule-type store one rule type
OneRuleOneType ==
    /\ DOMAIN rules = {"f"} /\ Len(rules["f"]) = 1
    /\ DOMAIN rule_types.types = {"f"} /\ Len(rule_types.types["f"]) = 1

\* validate_rules has returned one rule-type diagnostic, an InvalidRule
\* whose message holds the piece
InvalidRuleSaying(piece) ==
    /\ Len(RuleTypeDiagnostics) = 1
    /\ IsInvalidRule(RuleTypeDiagnostics[1])
    /\ \E i \in 1 .. Len(RuleTypeDiagnostics[1].msg) : RuleTypeDiagnostics[1].msg[i] = piece

\* C23: for a rule f(x: Citrus{..}) and a rule type f(x: Fruit{..}) the
\* subclass check decides in this order: Fruit unregistered, the
\* UnregisteredClass error is the one rule-type diagnostic, whatever Citrus
\* is; Fruit not an external instance, no match ('should be a registered
\* class'); no MRO for Citrus, no match ('is not registered as a class');
\* MRO of Citrus without the id of Fruit, no match ('must match rule type
\* specializer'); otherwise a match if and only if the fields match.
C23_SubclassCheckOrder ==
    (ret.op = "validate_rules" /\ OneRuleOneType) =>
        LET rule_instance == rules["f"][1].params[1].specializer[1]
            rule_type_instance == rule_types.types["f"][1].params[1].specializer[1]
        IN  IF "Fruit" \notin DOMAIN constants
            THEN /\ Len(RuleTypeDiagnostics) = 1
                 /\ RuleTypeDiagnostics[1].kind = "UnregisteredClass"
                 /\ RuleTypeDiagnostics[1].msg = <<"Fruit">>
            ELSE IF constants["Fruit"].kind # "ExternalInstance"
            THEN InvalidRuleSaying(" should be a registered class, but instead it's registered as a constant with value: ")
            ELSE IF "Citrus" \notin DOMAIN mro
            THEN InvalidRuleSaying(" is not registered as a class.")
            ELSE IF \A i \in 1 .. Len(mro["Citrus"]) :
                        mro["Citrus"][i] # constants["Fruit"].instance_id
            THEN InvalidRuleSaying(" must match rule type specializer ")
            ELSE IF ~FieldsIncluded(rule_type_instance.fields, rule_instance.fields)
            THEN InvalidRuleSaying(" because the specializer fields did not match.")
            ELSE RuleTypeDiagnostics = << >>

\* C23 witness: Fruit is not registered while Citrus is a class with an
\* MRO, and validate_rules reports the unregistered class
C23_Witness ==
    /\ ret.op = "validate_rules"
    /\ OneRuleOneType
    /\ "Fruit" \notin DOMAIN constants
    /\ "Citrus" \in DOMAIN mro
    /\ Len(RuleTypeDiagnostics) = 1
    /\ RuleTypeDiagnostics[1].kind = "UnregisteredClass"

----------------------------------------------------------------------------
(* The matcher on rule values: rule_params_match called on a rule whose    *)
(* parameter is a value, or is specialized on a value, and a rule type     *)
(* with an instance pattern, while the host registers the built-in classes *)
(* and their MROs.                                                         *)

\* the values of the rule parameters
ValueInputs ==
    << Integer(6), Float(6), String("hi"), Boolean(TRUE),
       List(<<Integer(1), Integer(2)>>), Dictionary(IdOne) >>

\* the tags of the rule types: the built-in classes and the class Foo
ValueTagInputs ==
    <<"Integer", "Float", "String", "Boolean", "List", "Dictionary", "Foo">>

\* the rule numbered i: f(x: V) for i up to the number of values, f(V) after
RuleValue(i) ==
    IF i <= Len(ValueInputs) THEN ValueInputs[i] ELSE ValueInputs[i - Len(ValueInputs)]

ValueRule(i) ==
    Rule("f", <<IF i <= Len(ValueInputs) THEN ValueSpecialized(RuleValue(i))
                ELSE ValueParam(RuleValue(i))>>, FALSE)

\* the rule type numbered j: f(x: Tag) for j up to the number of tags,
\* f(x: Tag{id: 1}) after
ValueTypeTag(j) ==
    IF j <= Len(ValueTagInputs) THEN ValueTagInputs[j] ELSE ValueTagInputs[j - Len(ValueTagInputs)]

ValueTypeFields(j) == IF j <= Len(ValueTagInputs) THEN EmptyMap ELSE IdOne

ValueTypeRule(j) ==
    Rule("f", <<SpecializedWithFields(ValueTypeTag(j), ValueTypeFields(j))>>, FALSE)

\* the classes and MROs the host registers: with the second MRO the class
\* Integer descends from Float
ValueConstantInputs ==
    {<<"Foo", ExternalInstance(4)>>, <<"Integer", ExternalInstance(5)>>,
     <<"Float", ExternalInstance(6)>>}

ValueMroInputs == {<<"Integer", << >> >>, <<"Integer", <<5, 6>> >>}

RegisterValueConstant == \E c \in ValueConstantInputs : register_constant(c[1], c[2])

AddValueMro == \E m \in ValueMroInputs : add_mro(m[1], m[2])

MatchValues ==
    \E i \in 1 .. 2 * Len(ValueInputs), j \in 1 .. 2 * Len(ValueTagInputs) :
        call_rule_params_match(ValueRule(i), ValueTypeRule(j), i, j)

NextValues == RegisterValueConstant \/ AddValueMro \/ MatchValues \/ ClearRules

SpecValues == Init /\ [][NextValues]_vars

----------------------------------------------------------------------------
(* Claims about the matcher on rule values.                                *)

\* the last call matched a rule value against an instance pattern
MatchedValue == ret.op = "rule_params_match"

\* the value of the rule of the last call and its built-in tag
MatchedValueOf == RuleValue(ret.value.rule)

BuiltinTag(v) == v.kind

\* the rule specialized on the built-in tag of V, with V's fields if V is a
\* dictionary
SpecializedOnBuiltinTag(v) ==
    Rule("f", <<SpecializedWithFields(BuiltinTag(v),
                    IF v.kind = "Dictionary" THEN v.fields ELSE EmptyMap)>>, FALSE)

\* the result of the last call is one of the results for the rule specialized
\* on the built-in tag of its value
CheckedAsBuiltinTag ==
    ret.value.result \in
        rule_params_match(KB, SpecializedOnBuiltinTag(MatchedValueOf),
                          ValueTypeRule(ret.value.rule_type))

\* a rule type of the same tag without fields matches
SameTagMatches ==
    (/\ ValueTypeTag(ret.value.rule_type) = BuiltinTag(MatchedValueOf)
     /\ ValueTypeFields(ret.value.rule_type) = EmptyMap)
        => ret.value.result = MatchTrue

\* a primitive value never matches a tag that carries fields
PrimitiveWithFieldsNeverMatches ==
    (/\ MatchedValueOf.kind # "Dictionary"
     /\ ValueTypeFields(ret.value.rule_type) # EmptyMap)
        => ret.value.result.res # "True"

\* C25 as stated: a rule value V is checked against an instance pattern as
\* the rule specialized on V's built-in tag is; it matches that same tag
\* without fields, does not match any other tag, and a primitive V never
\* matches a tag that carries fields.
C25_ValueAsBuiltinTag ==
    MatchedValue =>
        /\ CheckedAsBuiltinTag
        /\ SameTagMatches
        /\ ValueTypeTag(ret.value.rule_type) # BuiltinTag(MatchedValueOf)
              => ret.value.result.res # "True"
        /\ PrimitiveWithFieldsNeverMatches

\* C25 amended: a rule value V is checked against an instance pattern as the
\* rule specialized on V's built-in tag is; it matches that same tag without
\* fields, does not match another tag unless the MRO of V's built-in tag
\* contains the instance id registered for that tag, and a primitive V never
\* matches a tag that carries fields.
C25_ValueAsBuiltinTagUnlessDescendant ==
    MatchedValue =>
        /\ CheckedAsBuiltinTag
        /\ SameTagMatches
        /\ (/\ ValueTypeTag(ret.value.rule_type) # BuiltinTag(MatchedValueOf)
            /\ ~MroContains(BuiltinTag(MatchedValueOf), ValueTypeTag(ret.value.rule_type)))
              => ret.value.result.res # "True"
        /\ PrimitiveWithFieldsNeverMatches

\* C25 witness: with Integer and Float registered as unrelated classes, the
\* rule f(6) did not match the rule type f(x: Float)
C25_Witness ==
    /\ MatchedValue
    /\ ret.value.rule > Len(ValueInputs)
    /\ MatchedValueOf = Integer(6)
    /\ ValueTypeTag(ret.value.rule_type) = "Float"
    /\ ValueTypeFields(ret.value.rule_type) = EmptyMap
    /\ "Float" \in DOMAIN constants
    /\ "Integer" \in DOMAIN mro
    /\ ret.value.result.res = "False"

----------------------------------------------------------------------------
(* Claims about the registry of classes and the union tags.                *)

UnionNames == {ACTOR_UNION_NAME, RESOURCE_UNION_NAME}

\* C27: after any sequence of register_constant, add_mro and clear_rules
\* calls every name with an MRO is a registered constant and neither
\* constants nor mro has an entry for Actor or Resource; a rule specialized
\* on a union tag never matches a rule type specialized on a class tag.
C27_UnionsNeverRegistered ==
    /\ DOMAIN mro \subseteq DOMAIN constants
    /\ UnionNames \cap DOMAIN constants = {}
    /\ UnionNames \cap DOMAIN mro = {}
    /\ (/\ ret.op = "rule_params_match"
        /\ is_union(RuleTag) /\ ~is_union(TypeTag))
          => ret.value.result.res # "True"

\* C27 witness: Fruit is a class with an MRO, registering Actor and adding
\* an MRO for it were refused, and the rule f(x: Actor) failed the subclass
\* check against f(x: Fruit) because Actor has no MRO
C27_Witness ==
    /\ ret.op = "rule_params_match"
    /\ RuleTag = ACTOR_UNION_NAME
    /\ TypeTag = "Fruit"
    /\ "Fruit" \in DOMAIN constants
    /\ constants["Fruit"].kind = "ExternalInstance"
    /\ mro # EmptyMap
    /\ ret.value.result.res = "False"
    /\ ret.value.result.msg[Len(ret.value.result.msg)] = " is not registered as a class."

----------------------------------------------------------------------------
(* Claims about the id an add_source call draws.                           *)

\* C28: every add_source advances the id counter by one; one rejected with
\* FileLoading leaves loaded_files, loaded_content and sources unchanged; one
\* without filename succeeds and leaves loaded_files and loaded_content
\* unchanged.
C28_RejectedSourceTakesAnId ==
    [][\A source \in SourceInputs :
           add_source(source) =>
               /\ id_counter' = CounterSucc(id_counter)
               /\ ~ret'.ok =>
                     /\ ret'.kind = "FileLoading"
                     /\ source.filename # None
                     /\ UNCHANGED <<loaded_files, loaded_content, sources>>
               /\ source.filename = None =>
                     /\ ret'.ok
                     /\ UNCHANGED <<loaded_files, loaded_content>>]_vars

\* C28 witness: an add_source was rejected, and the new_id after it returned
\* the id after the one the rejected call had drawn
C28_Witness ==
    /\ ret.op = "new_id"
    /\ Len(issued) >= 2
    /\ issued[Len(issued) - 1].by = "rejected"
    /\ issued[Len(issued)].by = "new_id"
    /\ issued[Len(issued)].id = CounterSucc(issued[Len(issued) - 1].id)
    /\ loaded_files # EmptyMap

----------------------------------------------------------------------------
(* The two phases of validate_rule_types over union rule types: rules and  *)
(* rule types of one name are loaded while the host registers classes and  *)
(* the policy declares resource blocks, some for classes never registered. *)

CoverageBlockInputs == {<<"resource", "Fruit">>, <<"resource", "Orange">>}

CoverageRuleInputs ==
    {Rule("f", <<Specialized("Fruit")>>, FALSE),
     Rule("f", <<Specialized("Citrus")>>, FALSE)}

CoverageRuleTypeInputs ==
    {Rule("f", <<Specialized(RESOURCE_UNION_NAME)>>, TRUE),
     Rule("f", <<Specialized("Citrus")>>, FALSE),
     Rule("f", <<Specialized("Fruit")>>, TRUE)}

DeclareCoverageBlock == \E b \in CoverageBlockInputs : declare_block(b[1], b[2])

AddCoverageRule == \E rule \in CoverageRuleInputs : add_rule(rule)

AddCoverageRuleType == \E rule_type \in CoverageRuleTypeInputs : add_rule_type(rule_type)

NextCoverage ==
    \/ RegisterClass \/ AddClassMro \/ DeclareCoverageBlock
    \/ AddCoverageRule \/ AddCoverageRuleType
    \/ ValidateRules \/ ClearRules

SpecCoverage == Init /\ [][NextCoverage]_vars

----------------------------------------------------------------------------
(* Claims about the two phases of validate_rule_types.                     *)

\* the results validate_rule_types can return in this state, over every
\* iteration order
ValidationResults == validate_rule_types(KB, rules, rule_types)

\* C29: when the first loop of validate_rule_types produces no error, the
\* second loop yields Ok or MissingRequiredRule, never the error of a match
\* attempt; and whether validate_rules reports a rule-type diagnostic does
\* not depend on the iteration order: either every order yields Ok or none
\* does.
C29_CoverageNeverStructural ==
    /\ ConformanceErrors(KB, rules, rule_types) = {} =>
          \A r \in CoverageResults(KB, rules, rule_types) :
              r = ValidationOk \/ r.kind = "MissingRequiredRule"
    /\ ValidationOk \in ValidationResults => ValidationResults = {ValidationOk}
    /\ ret.op = "validate_rules" =>
          /\ (RuleTypeDiagnostics = << >>) <=> (ValidationResults = {ValidationOk})
          /\ ConformanceErrors(KB, rules, rule_types) = {} =>
                \A i \in 1 .. Len(RuleTypeDiagnostics) :
                    RuleTypeDiagnostics[i].kind = "MissingRequiredRule"

\* C29 witness: f(x: Citrus) matches the rule type f(x: Citrus) and fails
\* the required f(x: Resource), whose member Fruit is registered; the
\* first loop produced no error and validate_rules reported the required
\* rule type missing
C29_Witness ==
    /\ ret.op = "validate_rules"
    /\ ConformanceErrors(KB, rules, rule_types) = {}
    /\ "f" \in DOMAIN rules
    /\ Rule("f", <<Specialized(RESOURCE_UNION_NAME)>>, TRUE) \in rule_types.required
    /\ resource_blocks.resources # {}
    /\ Len(RuleTypeDiagnostics) = 1
    /\ RuleTypeDiagnostics[1].kind = "MissingRequiredRule"

\* C29, second witness: with two unregistered members of Resource the error
\* reported depends on the order of the members, and every order reports one
C29_OrderChangesOnlyTheError ==
    /\ ret.op = "validate_rules"
    /\ Cardinality(ValidationResults) >= 2
    /\ \A r \in ValidationResults : r.kind = "UnregisteredClass"
    /\ Len(RuleTypeDiagnostics) = 1

----------------------------------------------------------------------------
(* Re-registration of a class: the host registers Fruit under one instance *)
(* id and then under another, and gives Citrus an MRO that lists the one   *)
(* or the other.                                                           *)

ReregisterConstantInputs ==
    {<<"Fruit", ExternalInstance(1)>>, <<"Fruit", ExternalInstance(3)>>,
     <<"Citrus", ExternalInstance(2)>>}

ReregisterMroInputs ==
    {<<"Citrus", <<2, 1>> >>, <<"Citrus", <<2, 3>> >>, <<"Fruit", <<1>> >>}

ReregisterConstant == \E c \in ReregisterConstantInputs : register_constant(c[1], c[2])

AddMroAgain == \E m \in ReregisterMroInputs : add_mro(m[1], m[2])

NextReregister == ReregisterConstant \/ AddMroAgain \/ MatchTags \/ ClearRules

SpecReregister == Init /\ [][NextReregister]_vars

\* the last call matched f(x: Citrus) against the rule type f(x: Fruit)
MatchedCitrusAgainstFruit ==
    /\ ret.op = "rule_params_match"
    /\ RuleTag = "Citrus" /\ TypeTag = "Fruit"

\* the MRO of Citrus lists an instance id that Fruit no longer has
StaleMro ==
    /\ "Fruit" \in DOMAIN constants
    /\ "Citrus" \in DOMAIN mro
    /\ ~MroContains("Citrus", "Fruit")

\* C30: register_constant replaces the value of the name and leaves mro and
\* the other constants unchanged, whether or not the name was registered;
\* f(x: Citrus) does not match f(x: Fruit) while the MRO of Citrus lists
\* only an instance id Fruit no longer has, and matches once the MRO lists
\* the id Fruit has now.
C30_ReRegistrationKeepsMro ==
    [][/\ \A c \in ReregisterConstantInputs :
             register_constant(c[1], c[2]) =>
                 /\ mro' = mro
                 /\ DOMAIN constants' = (DOMAIN constants) \cup {c[1]}
                 /\ constants'[c[1]] = c[2]
                 /\ \A n \in (DOMAIN constants) \ {c[1]} : constants'[n] = constants[n]
       /\ (MatchedCitrusAgainstFruit /\ StaleMro) => ret.value.result.res = "False"
       /\ (MatchedCitrusAgainstFruit /\ MroContains("Citrus", "Fruit"))
             => ret.value.result = MatchTrue]_vars

\* C30 witness: Fruit was registered again with instance id 3 while the
\* MRO of Citrus still lists id 1, and f(x: Citrus) did not match
\* f(x: Fruit)
C30_Witness ==
    /\ MatchedCitrusAgainstFruit
    /\ "Fruit" \in DOMAIN constants
    /\ constants["Fruit"] = ExternalInstance(3)
    /\ "Citrus" \in DOMAIN mro
    /\ mro["Citrus"] = <<2, 1>>
    /\ "Fruit" \in DOMAIN mro
    /\ ret.value.result.res = "False"

\* C30, second witness: after add_mro gave Citrus an MRO listing the new
\* id of Fruit, f(x: Citrus) matched f(x: Fruit) again
C30_MatchesAfterAddMro ==
    /\ MatchedCitrusAgainstFruit
    /\ "Fruit" \in DOMAIN constants
    /\ constants["Fruit"] = ExternalInstance(3)
    /\ "Citrus" \in DOMAIN mro
    /\ mro["Citrus"] = <<2, 3>>
    /\ ret.value.result = MatchTrue

====
